---- MODULE Spec2Model ----
(***************************************************************************)
(* Model of the certificate chain builder, scripts/chain_certificates.py,  *)
(* and of the parts of api/index.py that drive it.                         *)
(*                                                                         *)
(* A Python str is a sequence of one-character strings, so that trimming,  *)
(* lower-casing, the hexadecimal check, date parsing and hashing are       *)
(* computed character by character.  Python's None is the value None.      *)
(***************************************************************************)
EXTENDS Integers, Sequences, FiniteSets, TLC

(* ------------------------------------------------------------------ *)
(* Bounds of the model                                                *)
(* ------------------------------------------------------------------ *)

\* Number of distinct digests of the abstract hash function.
HashMod == 5
\* Number of chain_certificates invocations in one behaviour.
MaxRuns == 2
\* Number of data rows the input CSV can grow to.
MaxRows == 3

(* ------------------------------------------------------------------ *)
(* Strings                                                            *)
(* ------------------------------------------------------------------ *)

None == <<"None">>

Rep(c, n) == [k \in 1..n |-> c]

Whitespace == {" ", "\t", "\n", "\r"}

Digits == <<"0","1","2","3","4","5","6","7","8","9">>

HexDigits == <<"0","1","2","3","4","5","6","7","8","9","a","b","c","d","e","f">>

UpperCase == <<"A","B","C","D","E","F","G","X">>

LowerCase == <<"a","b","c","d","e","f","g","x">>

IsDigit(c) == c \in {"0","1","2","3","4","5","6","7","8","9"}

DigitVal(c) == (CHOOSE k \in 1..10 : Digits[k] = c) - 1

\* str.lower() of one character
LowerTable == [c \in {UpperCase[k] : k \in 1..Len(UpperCase)} |->
                  LowerCase[CHOOSE k \in 1..Len(UpperCase) : UpperCase[k] = c]]

LowerChar(c) == IF c \in DOMAIN LowerTable THEN LowerTable[c] ELSE c

\* str.lower()
Lower(s) == [k \in 1..Len(s) |-> LowerChar(s[k])]

\* str.strip(): drop leading and trailing whitespace
Strip(s) ==
    LET keep == {k \in 1..Len(s) : s[k] \notin Whitespace}
    IN  IF keep = {} THEN <<>>
        ELSE LET lo == CHOOSE k \in keep : \A j \in keep : k <= j
                 hi == CHOOSE k \in keep : \A j \in keep : k >= j
             IN  SubSeq(s, lo, hi)

\* str.rstrip('/')
RStripSlash(s) ==
    LET keep == {k \in 1..Len(s) : s[k] # "/"}
    IN  IF keep = {} THEN <<>>
        ELSE SubSeq(s, 1, CHOOSE k \in keep : \A j \in keep : k >= j)

\* (value or "").strip()
_trim(value) == IF value = None THEN <<>> ELSE Strip(value)

\* s.split(sep) for a one-character separator
RECURSIVE SplitOn(_, _)
SplitOn(s, sep) ==
    LET hits == {k \in 1..Len(s) : s[k] = sep}
    IN  IF hits = {} THEN <<s>>
        ELSE LET p == CHOOSE k \in hits : \A j \in hits : k <= j
             IN  <<SubSeq(s, 1, p - 1)>> \o SplitOn(SubSeq(s, p + 1, Len(s)), sep)

\* value of a string of decimal digits
RECURSIVE DecVal(_)
DecVal(s) ==
    IF s = <<>> THEN 0
    ELSE 10 * DecVal(SubSeq(s, 1, Len(s) - 1)) + DigitVal(s[Len(s)])

AllDigits(s) == \A k \in 1..Len(s) : IsDigit(s[k])

\* decimal rendering of n, zero-padded to w characters (f"{n:0wd}")
RECURSIVE PadDec(_, _)
PadDec(n, w) ==
    IF n < 10 /\ w <= 1 THEN <<Digits[n + 1]>>
    ELSE PadDec(n \div 10, w - 1) \o <<Digits[(n % 10) + 1]>>

(* ------------------------------------------------------------------ *)
(* Field normalizers                                                  *)
(* ------------------------------------------------------------------ *)

GENESIS_HASH == Rep("0", 64)

REQUIRED_COLUMNS ==
    <<"CertID", "RecipientName", "CourseTitle", "DateIssued", "PreviousHash", "CurrentHash">>

IsLeap(y) == (y % 4 = 0 /\ y % 100 # 0) \/ y % 400 = 0

DaysIn(y, m) ==
    IF m = 2 THEN (IF IsLeap(y) THEN 29 ELSE 28)
    ELSE IF m \in {4, 6, 9, 11} THEN 30 ELSE 31

\* datetime.strptime(s, "%Y-%m-%d"): <<y, m, d>>, or <<>> for ValueError.
\* %Y is exactly four digits, %m and %d one or two digits (%d also a space
\* and a digit), and the date must exist in the calendar.
StrpTime(s) ==
    LET parts == SplitOn(s, "-")
    IN  IF Len(parts) # 3 THEN <<>>
        ELSE LET ys == parts[1]
                 ms == parts[2]
                 ds == IF Len(parts[3]) = 2 /\ parts[3][1] = " "
                       THEN SubSeq(parts[3], 2, 2) ELSE parts[3]
             IN  IF    Len(ys) # 4 \/ ~AllDigits(ys)
                    \/ Len(ms) \notin {1, 2} \/ ~AllDigits(ms)
                    \/ Len(ds) \notin {1, 2} \/ ~AllDigits(ds)
                    \/ (Len(parts[3]) = 2 /\ parts[3][1] = " " /\ ds = <<"0">>)
                 THEN <<>>
                 ELSE LET y == DecVal(ys)
                          m == DecVal(ms)
                          d == DecVal(ds)
                      IN  IF y < 1 \/ m < 1 \/ m > 12 \/ d < 1 THEN <<>>
                          ELSE IF d > DaysIn(y, m) THEN <<>>
                          ELSE <<y, m, d>>

\* dt.strftime("%Y-%m-%d"); the C library behind it does not zero-pad %Y
StrfTime(dt) == PadDec(dt[1], 1) \o <<"-">> \o PadDec(dt[2], 2) \o <<"-">> \o PadDec(dt[3], 2)

\* _normalize_date: the canonical date, or None where the code raises ValueError
_normalize_date(value) ==
    LET s  == _trim(value)
        dt == StrpTime(s)
    IN  IF dt = <<>> THEN None ELSE StrfTime(dt)

\* int(s, 16) succeeds: optional sign, optional 0x prefix, then hexadecimal
\* digits with single underscores allowed between digits (and right after
\* the prefix).  The argument is already stripped.
IsHexChar(c) ==
    LowerChar(c) \in {"0","1","2","3","4","5","6","7","8","9","a","b","c","d","e","f"}

IntBase16Parses(s) ==
    LET a == IF Len(s) >= 1 /\ s[1] \in {"+", "-"} THEN SubSeq(s, 2, Len(s)) ELSE s
        pre == Len(a) >= 2 /\ a[1] = "0" /\ a[2] \in {"x", "X"}
        b == IF pre THEN SubSeq(a, 3, Len(a)) ELSE a
        c == IF pre /\ Len(b) >= 1 /\ b[1] = "_" THEN SubSeq(b, 2, Len(b)) ELSE b
    IN  /\ Len(c) >= 1
        /\ IsHexChar(c[1])
        /\ IsHexChar(c[Len(c)])
        /\ \A k \in 1..Len(c) :
              \/ IsHexChar(c[k])
              \/ c[k] = "_" /\ k > 1 /\ IsHexChar(c[k - 1])

\* _is_hex64
_is_hex64(s0) ==
    LET s == _trim(s0)
    IN  IF Len(s) # 64 THEN FALSE ELSE IntBase16Parses(s)

\* A variant of _concat_fields that leaves the previous hash out
_concat_fields_NoPrevious(cert_id, name, title, date_issued, previous_hash) ==
    cert_id \o <<"|">> \o name \o <<"|">> \o title \o <<"|">> \o date_issued

\* A variant of _concat_fields with the name before the identifier
_concat_fields_Swapped(cert_id, name, title, date_issued, previous_hash) ==
    name \o <<"|">> \o cert_id \o <<"|">> \o title \o <<"|">> \o date_issued
         \o <<"|">> \o previous_hash

\* _concat_fields
_concat_fields(cert_id, name, title, date_issued, previous_hash) ==
    cert_id \o <<"|">> \o name \o <<"|">> \o title \o <<"|">> \o date_issued
            \o <<"|">> \o previous_hash

(* ------------------------------------------------------------------ *)
(* Hashing                                                            *)
(* ------------------------------------------------------------------ *)

\* The characters of the model, in a fixed order: a character's code is its
\* position (the role of its UTF-8 encoding in s.encode("utf-8")).
Alphabet ==
    <<"0","1","2","3","4","5","6","7","8","9",
      "a","b","c","d","e","f","g","h","i","j","k","l","m",
      "n","o","p","q","r","s","t","u","v","w","x","y","z",
      "A","B","C","D","E","F","G","T","U","X",
      " ","\t","|","-","/",":","?","=","&",".","_","+","%">>

CodeTable == [c \in {Alphabet[k] : k \in 1..Len(Alphabet)} |->
                 CHOOSE k \in 1..Len(Alphabet) : Alphabet[k] = c]

Code(c) == CodeTable[c]

\* hashlib.sha256(s.encode("utf-8")).hexdigest().  SHA-256 is abstracted by
\* a position-sensitive polynomial hash with HashMod digests; the digest is
\* rendered as hexdigest() renders it, 64 lower-case hexadecimal characters.
\* Feeding the characters s[lo..hi] to the hash state h, one character c at
\* a time by h := (17 * h + Code(c)) % HashMod, maps h to (a * h + b) %
\* HashMod: the pair <<a, b>>
RECURSIVE HashRange(_, _, _)
HashRange(s, lo, hi) ==
    IF lo > hi THEN <<1, 0>>
    ELSE IF lo = hi THEN <<17 % HashMod, Code(s[lo]) % HashMod>>
    ELSE LET mid == (lo + hi) \div 2
             l   == HashRange(s, lo, mid)
             r   == HashRange(s, mid + 1, hi)
         IN  <<(r[1] * l[1]) % HashMod, (r[1] * l[2] + r[2]) % HashMod>>

_sha256_hex(s) ==
    LET m == HashRange(s, 1, Len(s))
    IN  Rep("0", 63) \o <<HexDigits[((m[1] + m[2]) % HashMod) + 1]>>

(* ------------------------------------------------------------------ *)
(* Enrichment                                                         *)
(* ------------------------------------------------------------------ *)

QR_ENDPOINT ==
    <<"h","t","t","p","s",":","/","/","a","p","i",".","q","r","s","e","r","v","e","r",
      ".","c","o","m","/","v","1","/","c","r","e","a","t","e","-","q","r","-","c","o",
      "d","e","/","?">>

\* urllib.parse.quote_plus of one character
QuoteChar(c) ==
    CASE c = " " -> <<"+">>
      [] c = ":" -> <<"%","3","A">>
      [] c = "/" -> <<"%","2","F">>
      [] c = "?" -> <<"%","3","F">>
      [] c = "=" -> <<"%","3","D">>
      [] c = "&" -> <<"%","2","6">>
      [] c = "+" -> <<"%","2","B">>
      [] c = "%" -> <<"%","2","5">>
      [] c = "|" -> <<"%","7","C">>
      [] c = "\t" -> <<"%","0","9">>
      [] OTHER   -> <<c>>

RECURSIVE QuoteRange(_, _, _)
QuoteRange(s, lo, hi) ==
    IF lo > hi THEN <<>>
    ELSE IF lo = hi THEN QuoteChar(s[lo])
    ELSE LET mid == (lo + hi) \div 2
         IN  QuoteRange(s, lo, mid) \o QuoteRange(s, mid + 1, hi)

\* urllib.parse.quote_plus
QuotePlus(s) == QuoteRange(s, 1, Len(s))

\* _build_qr_url
_build_qr_url(data, size) ==
    QR_ENDPOINT \o <<"d","a","t","a","=">> \o QuotePlus(data)
                \o <<"&","s","i","z","e","=">> \o PadDec(size, 1) \o <<"x">> \o PadDec(size, 1)

\* f"{base_url.rstrip('/')}/?hash={current_hash}"
VerificationUrl(base_url, current_hash) ==
    RStripSlash(base_url) \o <<"/","?","h","a","s","h","=">> \o current_hash

\* os.path.join(qr_dir, qr_filename)
PathJoin(dir, name) ==
    IF name # <<>> /\ name[1] = "/" THEN name
    ELSE IF dir = <<>> \/ dir[Len(dir)] = "/" THEN dir \o name
    ELSE dir \o <<"/">> \o name

\* the working directory of the process
CWD == <<"/","w">>

\* os.path.abspath for a path without "." or ".." components
AbsPath(p) == IF p # <<>> /\ p[1] = "/" THEN p ELSE CWD \o <<"/">> \o p

\* f"{cert_id}.png" if cert_id else f"{i+1:03d}.png"
QrFilename(cert_id, i) ==
    IF cert_id # <<>> THEN cert_id \o <<".","p","n","g">>
    ELSE PadDec(i + 1, 3) \o <<".","p","n","g">>

\* an optional string argument is truthy: neither None nor ""
Truthy(v) == v # None /\ v # <<>>

(* ------------------------------------------------------------------ *)
(* chain_certificates: the computation of one loop iteration          *)
(* ------------------------------------------------------------------ *)

\* A variant of MissingColumns that reports the first missing column only
MissingColumns_FirstOnly(fieldnames) ==
    LET all == SelectSeq(REQUIRED_COLUMNS, LAMBDA c : \A k \in 1..Len(fieldnames) : fieldnames[k] # c)
    IN  IF all = <<>> THEN <<>> ELSE <<all[1]>>

\* missing = [c for c in REQUIRED_COLUMNS if c not in fieldnames]
MissingColumns(fieldnames) ==
    SelectSeq(REQUIRED_COLUMNS, LAMBDA c : \A k \in 1..Len(fieldnames) : fieldnames[k] # c)

\* A variant of PreviousHashFor that takes every row's previous hash from
\* the input column
PreviousHashFor_FromInput(i, prev_hash_raw, out_rows) ==
    Lower(IF prev_hash_raw # <<>> THEN prev_hash_raw ELSE GENESIS_HASH)

\* A variant of PreviousHashFor that does not lower-case
PreviousHashFor_NoLower(i, prev_hash_raw, out_rows) ==
    IF i = 0
    THEN (IF prev_hash_raw # <<>> THEN prev_hash_raw ELSE GENESIS_HASH)
    ELSE (IF _trim(out_rows[i]["CurrentHash"]) # <<>>
          THEN _trim(out_rows[i]["CurrentHash"]) ELSE GENESIS_HASH)

\* A variant of PreviousHashFor in which a PreviousHash cell that is given
\* wins at every row, and only a blank one is replaced by the link
PreviousHashFor_InputWins(i, prev_hash_raw, out_rows) ==
    Lower(IF prev_hash_raw # <<>> THEN prev_hash_raw
          ELSE IF i = 0 THEN GENESIS_HASH
          ELSE (IF _trim(out_rows[i]["CurrentHash"]) # <<>>
                THEN _trim(out_rows[i]["CurrentHash"]) ELSE GENESIS_HASH))

\* A variant of PreviousHashFor that links every later row to the first
\* record instead of the record before it
PreviousHashFor_ToFirst(i, prev_hash_raw, out_rows) ==
    Lower(IF i = 0
          THEN (IF prev_hash_raw # <<>> THEN prev_hash_raw ELSE GENESIS_HASH)
          ELSE (IF _trim(out_rows[1]["CurrentHash"]) # <<>>
                THEN _trim(out_rows[1]["CurrentHash"]) ELSE GENESIS_HASH))

\* The previous hash of row i (zero-based) before validation: the first row
\* takes the trimmed input value or the genesis hash, every later row the
\* CurrentHash of the record before it; the result is lower-cased.
PreviousHashFor(i, prev_hash_raw, out_rows) ==
    Lower(IF i = 0
          THEN (IF prev_hash_raw # <<>> THEN prev_hash_raw ELSE GENESIS_HASH)
          ELSE (IF _trim(out_rows[i]["CurrentHash"]) # <<>>
                THEN _trim(out_rows[i]["CurrentHash"]) ELSE GENESIS_HASH))

\* A variant of IsDuplicate that never reports a duplicate
IsDuplicate_Never(current_hash, seen) == FALSE

\* if current_hash in seen_hashes
IsDuplicate(current_hash, seen) == current_hash \in seen

\* A variant of AddSeen that forgets the hash
AddSeen_Forgets(seen, current_hash) == seen

\* seen_hashes.add(current_hash)
AddSeen(seen, current_hash) == seen \cup {current_hash}

\* An exception: its kind, the row number its message names (0: none) and
\* the value its message quotes
Error(kind, row, value) == [kind |-> kind, row |-> row, value |-> value]

NoError == Error("None", 0, <<>>)

\* A variant of LinkRow that hashes the CertID cell as read, untrimmed
LinkRow_HashesRaw(i, row, out_rows, seen) ==
    LET cert_id       == _trim(row.CertID)
        name          == _trim(row.RecipientName)
        title         == _trim(row.CourseTitle)
        date_issued   == _normalize_date(row.DateIssued)
        prev_hash_raw == _trim(row.PreviousHash)
        previous_hash == PreviousHashFor(i, prev_hash_raw, out_rows)
        current_hash  == _sha256_hex(_concat_fields(IF row.CertID = None THEN <<>> ELSE row.CertID,
                                                    name, title, date_issued, previous_hash))
    IN  IF date_issued = None
        THEN [error |-> Error("InvalidDate", 0, _trim(row.DateIssued)), output_row |-> <<>>]
        ELSE IF ~_is_hex64(previous_hash)
        THEN [error |-> Error("InvalidHashFormat", i + 2, previous_hash), output_row |-> <<>>]
        ELSE IF IsDuplicate(current_hash, seen)
        THEN [error |-> Error("DuplicateHash", i + 2, current_hash), output_row |-> <<>>]
        ELSE [error |-> NoError,
              output_row |-> [CertID |-> cert_id, RecipientName |-> name,
                              CourseTitle |-> title, DateIssued |-> date_issued,
                              PreviousHash |-> previous_hash, CurrentHash |-> current_hash]]

\* A variant of LinkRow whose messages count the data rows from one,
\* without the header row
LinkRow_CountsDataRows(i, row, out_rows, seen) ==
    LET cert_id       == _trim(row.CertID)
        name          == _trim(row.RecipientName)
        title         == _trim(row.CourseTitle)
        date_issued   == _normalize_date(row.DateIssued)
        prev_hash_raw == _trim(row.PreviousHash)
        previous_hash == PreviousHashFor(i, prev_hash_raw, out_rows)
        current_hash  == _sha256_hex(_concat_fields(cert_id, name, title, date_issued, previous_hash))
    IN  IF date_issued = None
        THEN [error |-> Error("InvalidDate", 0, _trim(row.DateIssued)), output_row |-> <<>>]
        ELSE IF ~_is_hex64(previous_hash)
        THEN [error |-> Error("InvalidHashFormat", i + 1, previous_hash), output_row |-> <<>>]
        ELSE IF IsDuplicate(current_hash, seen)
        THEN [error |-> Error("DuplicateHash", i + 1, current_hash), output_row |-> <<>>]
        ELSE [error |-> NoError,
              output_row |-> [CertID |-> cert_id, RecipientName |-> name,
                              CourseTitle |-> title, DateIssued |-> date_issued,
                              PreviousHash |-> previous_hash, CurrentHash |-> current_hash]]

\* Lines 122-164 for row i: the error raised, or the record built.
LinkRow(i, row, out_rows, seen) ==
    LET cert_id       == _trim(row.CertID)
        name          == _trim(row.RecipientName)
        title         == _trim(row.CourseTitle)
        date_issued   == _normalize_date(row.DateIssued)
        prev_hash_raw == _trim(row.PreviousHash)
        previous_hash == PreviousHashFor(i, prev_hash_raw, out_rows)
        current_hash  == _sha256_hex(_concat_fields(cert_id, name, title, date_issued, previous_hash))
    IN  IF date_issued = None
        THEN [error |-> Error("InvalidDate", 0, _trim(row.DateIssued)), output_row |-> <<>>]
        ELSE IF ~_is_hex64(previous_hash)
        THEN [error |-> Error("InvalidHashFormat", i + 2, previous_hash), output_row |-> <<>>]
        ELSE IF IsDuplicate(current_hash, seen)
        THEN [error |-> Error("DuplicateHash", i + 2, current_hash), output_row |-> <<>>]
        ELSE [error |-> NoError,
              output_row |-> [CertID |-> cert_id, RecipientName |-> name,
                              CourseTitle |-> title, DateIssued |-> date_issued,
                              PreviousHash |-> previous_hash, CurrentHash |-> current_hash]]

\* Lines 118-164 and 188 over the first n rows of rs, without the
\* enrichment: the records linked, the hashes seen, and the error that
\* stopped the loop if one did
RECURSIVE LinkAll(_, _)
LinkAll(rs, n) ==
    IF n = 0 THEN [error |-> NoError, output_rows |-> <<>>, seen_hashes |-> {}]
    ELSE LET p == LinkAll(rs, n - 1)
         IN  IF p.error # NoError THEN p
             ELSE LET r == LinkRow(n - 1, rs[n], p.output_rows, p.seen_hashes)
                  IN  IF r.error # NoError THEN [p EXCEPT !.error = r.error]
                      ELSE [error       |-> NoError,
                            output_rows |-> Append(p.output_rows, r.output_row),
                            seen_hashes |-> AddSeen(p.seen_hashes, r.output_row.CurrentHash)]

\* A variant of Enrich that records the image path before the download, so
\* that a failed download leaves it in the record
Enrich_PathBeforeDownload(output_row, i, o, qr_ok, files) ==
    LET verification_url ==
            IF Truthy(o.base_url)
            THEN VerificationUrl(o.base_url, output_row["CurrentHash"]) ELSE None
        r1 == IF verification_url # None
              THEN ("VerificationURL" :> verification_url) @@ output_row ELSE output_row
        r2 == IF verification_url # None /\ o.add_qr_url
              THEN ("QRCodeURL" :> _build_qr_url(verification_url, o.qr_size)) @@ r1 ELSE r1
        qr_path == PathJoin(o.qr_dir, QrFilename(output_row["CertID"], i))
        r3 == IF verification_url # None /\ Truthy(o.qr_dir)
              THEN ("QRCodePath" :> (IF o.qr_absolute THEN AbsPath(qr_path) ELSE qr_path)) @@ r2
              ELSE r2
    IN  IF verification_url # None /\ Truthy(o.qr_dir) /\ qr_ok
        THEN [row   |-> r3,
              files |-> (AbsPath(qr_path) :> _build_qr_url(verification_url, o.qr_size)) @@ files]
        ELSE [row |-> r3, files |-> files]

\* A variant of Enrich that lets the verification URL replace PreviousHash
Enrich_OverwritesPrevious(output_row, i, o, qr_ok, files) ==
    IF Truthy(o.base_url)
    THEN [row   |-> [output_row EXCEPT !["PreviousHash"] =
                        VerificationUrl(o.base_url, output_row["CurrentHash"])],
          files |-> files]
    ELSE [row |-> output_row, files |-> files]

\* A variant of Enrich that stores the image path under the key CurrentHash
Enrich_ClobbersHash(output_row, i, o, qr_ok, files) ==
    LET qr_path == PathJoin(o.qr_dir, QrFilename(output_row["CertID"], i))
    IN  IF Truthy(o.base_url) /\ Truthy(o.qr_dir) /\ qr_ok
        THEN [row |-> [output_row EXCEPT !["CurrentHash"] = qr_path], files |-> files]
        ELSE [row |-> output_row, files |-> files]

\* Lines 166-186 for the record of row i: the enriched record and the QR
\* image files after the download, which succeeds (qr_ok) or raises.
\* An image file is represented by the URL it was fetched from.
Enrich(output_row, i, o, qr_ok, files) ==
    LET verification_url ==
            IF Truthy(o.base_url)
            THEN VerificationUrl(o.base_url, output_row["CurrentHash"]) ELSE None
        r1 == IF verification_url # None
              THEN ("VerificationURL" :> verification_url) @@ output_row ELSE output_row
        r2 == IF verification_url # None /\ o.add_qr_url
              THEN ("QRCodeURL" :> _build_qr_url(verification_url, o.qr_size)) @@ r1 ELSE r1
        qr_path == PathJoin(o.qr_dir, QrFilename(output_row["CertID"], i))
    IN  IF verification_url # None /\ Truthy(o.qr_dir) /\ qr_ok
        THEN [row   |-> ("QRCodePath" :> (IF o.qr_absolute THEN AbsPath(qr_path) ELSE qr_path)) @@ r2,
              files |-> (AbsPath(qr_path) :> _build_qr_url(verification_url, o.qr_size)) @@ files]
        ELSE [row |-> r2, files |-> files]

\* A variant of OutFieldnames that adds QRCodePath only when images are
\* downloaded, which takes a base_url as well
OutFieldnames_PathNeedsBase(o) ==
    REQUIRED_COLUMNS
      \o (IF Truthy(o.base_url) THEN <<"VerificationURL">> ELSE <<>>)
      \o (IF o.add_qr_url THEN <<"QRCodeURL">> ELSE <<>>)
      \o (IF Truthy(o.base_url) /\ Truthy(o.qr_dir) THEN <<"QRCodePath">> ELSE <<>>)

\* Lines 190-197
OutFieldnames(o) ==
    REQUIRED_COLUMNS
      \o (IF Truthy(o.base_url) THEN <<"VerificationURL">> ELSE <<>>)
      \o (IF o.add_qr_url THEN <<"QRCodeURL">> ELSE <<>>)
      \o (IF Truthy(o.qr_dir) THEN <<"QRCodePath">> ELSE <<>>)

\* csv.DictWriter.writerow: the cells of a record under the header, a key
\* the record lacks giving the empty cell
CsvCells(row, fieldnames) ==
    [k \in 1..Len(fieldnames) |->
        IF fieldnames[k] \in DOMAIN row THEN row[fieldnames[k]] ELSE <<>>]

\* Lines 199-205: the content of the chained CSV
CsvContent(out_rows, o) ==
    [exists |-> TRUE,
     header |-> OutFieldnames(o),
     rows   |-> [k \in 1..Len(out_rows) |-> CsvCells(out_rows[k], OutFieldnames(o))]]

\* A variant of JsonContent that exports the records last first
JsonContent_Reversed(out_rows) ==
    [exists |-> TRUE,
     records |-> [k \in 1..Len(out_rows) |-> out_rows[Len(out_rows) + 1 - k]]]

\* Lines 207-211: the content of the JSON export
JsonContent(out_rows) == [exists |-> TRUE, records |-> out_rows]

\* A variant of BuildIndex that numbers the records from one
BuildIndex_OneBased(out_rows) ==
    LET hashes == {out_rows[k]["CurrentHash"] : k \in 1..Len(out_rows)}
    IN  [h \in hashes |->
            CHOOSE k \in 1..Len(out_rows) :
                /\ out_rows[k]["CurrentHash"] = h
                /\ \A j \in 1..Len(out_rows) : out_rows[j]["CurrentHash"] = h => j <= k]

\* index = {row["CurrentHash"]: i for i, row in enumerate(output_rows)}
BuildIndex(out_rows) ==
    LET hashes == {out_rows[k]["CurrentHash"] : k \in 1..Len(out_rows)}
    IN  [h \in hashes |->
            (CHOOSE k \in 1..Len(out_rows) :
                /\ out_rows[k]["CurrentHash"] = h
                /\ \A j \in 1..Len(out_rows) : out_rows[j]["CurrentHash"] = h => j <= k) - 1]

\* Lines 213-218: the content of the hash index
IndexContent(out_rows) == [exists |-> TRUE, map |-> BuildIndex(out_rows)]

(* ------------------------------------------------------------------ *)
(* Inputs of the model                                                *)
(* ------------------------------------------------------------------ *)

C1   == <<"C","1">>
C2sp == <<" ","C","2","\t">>
U1   == <<"U","1">>
Al   == <<"A","l">>
Bo   == <<" ","B","o">>
T    == <<"T">>
D1   == <<"2","0","2","4","-","0","1","-","1","0">>
D2   == <<"2","0","2","4","-","1","-","5">>
DBad == <<"2","0","2","4","-","0","2","-","3","0">>

InputRow(c, n, d, p, h) ==
    [CertID |-> c, RecipientName |-> n, CourseTitle |-> T, DateIssued |-> d,
     PreviousHash |-> p, CurrentHash |-> h]

\* PreviousHash cells of a first row: absent, blank, digests, a padded
\* upper-case value, values int(s, 16) accepts though they are not 64
\* hexadecimal digits, a short value and a value with a letter beyond f
FirstPrevs ==
    { None,
      <<" ">>,
      GENESIS_HASH,
      Rep("0", 63) \o <<"3">>,
      <<" ">> \o Rep("A", 63) \o <<"b", "\t">>,
      <<"0","X">> \o Rep("0", 62),
      <<"+">> \o Rep("0", 63),
      <<"-">> \o Rep("f", 63),
      <<"0","_">> \o Rep("0", 62),
      Rep("0", 63),
      <<"g">> \o Rep("0", 63),
      <<"0","_","_">> \o Rep("0", 61) }

\* Data rows of an input file: the hash columns of a row are ignored,
\* except the PreviousHash of the first row
BodyRows ==
    {InputRow(c, Al, d, None, None) : c \in {C1, C2sp}, d \in {D1, D2, DBad}}
      \cup {InputRow(C1, Bo, D1, <<"z">>, <<"z">>)}

HEADER4 == <<"CertID", "RecipientName", "CourseTitle", "DateIssued">>

\* A file that does not exist
NoFile == [exists |-> FALSE]

\* A CSV file read by csv.DictReader: its header and its data rows
InputCsv(fieldnames, rs) == [exists |-> TRUE, fieldnames |-> fieldnames, rows |-> rs]

\* The input CSV before the first invocation: absent, empty (no header:
\* reader.fieldnames or []), or a header and rows
InitialFiles ==
    {NoFile}
      \cup {InputCsv(h, <<>>) : h \in {<<>>, REQUIRED_COLUMNS, HEADER4}}
      \cup {InputCsv(SubSeq(REQUIRED_COLUMNS, 1, 5), <<InputRow(C1, Al, D1, None, None)>>)}
      \cup {InputCsv(REQUIRED_COLUMNS, <<InputRow(C1, Al, D1, p, None)>>) : p \in FirstPrevs}
      \cup {InputCsv(REQUIRED_COLUMNS, <<r>>) : r \in BodyRows}
      \cup {InputCsv(REQUIRED_COLUMNS, <<r, s>>) : r \in BodyRows, s \in BodyRows}

\* Paths of the artifacts (module-level defaults of main and of the API)
JSON_PATH  == <<"j">>
INDEX_PATH == <<"x">>
QR_DIR     == <<"q">>

Options(json, index, base, qrdir, addqr, abs) ==
    [json_path |-> json, index_path |-> index, base_url |-> base, qr_dir |-> qrdir,
     qr_size |-> 180, add_qr_url |-> addqr, qr_absolute |-> abs]

\* chain_certificates called with its defaults
OptBare == Options(None, None, None, None, FALSE, FALSE)

\* main() fills json_path, index_path and qr_dir in
OptMain == Options(JSON_PATH, INDEX_PATH, None, QR_DIR, FALSE, FALSE)

\* a direct call with json_path, base_url, qr_dir, add_qr_url and qr_size=90,
\* and no index_path
OptDirectQr ==
    [Options(JSON_PATH, None, <<"h",":","v">>, QR_DIR, TRUE, FALSE) EXCEPT !.qr_size = 90]

\* add_certificate: base_url=VERCEL_URL, add_qr_url=True, qr_absolute=True
OptApiAdd == Options(JSON_PATH, INDEX_PATH, <<"h",":","v">>, QR_DIR, TRUE, TRUE)

\* regenerate_data: base_url=request.url_root (ends in "/"), qr_absolute=True
OptApiRegen == Options(JSON_PATH, INDEX_PATH, <<"h",":","v","/">>, QR_DIR, FALSE, TRUE)

\* arguments of direct calls of chain_certificates
DirectOptions == {OptBare, OptDirectQr}

(* ------------------------------------------------------------------ *)
(* Chain Validator (spec section 4.3)                                 *)
(* ------------------------------------------------------------------ *)

\* The hashes recomputed forward over the first n records from the
\* starting previous hash: each step hashes the record's four content
\* fields with the hash recomputed for the record before it.
RECURSIVE Recompute(_, _, _)
Recompute(recs, start, n) ==
    IF n = 0 THEN <<>>
    ELSE LET p == Recompute(recs, start, n - 1)
         IN  Append(p, _sha256_hex(_concat_fields(recs[n]["CertID"], recs[n]["RecipientName"],
                                                  recs[n]["CourseTitle"], recs[n]["DateIssued"],
                                                  IF n = 1 THEN start ELSE p[n - 1])))

\* Validation through the record at position n (the target record, or the
\* end of the chain): Valid, or Broken(at_index) at the first (zero-based)
\* position whose recomputed hash differs from the stored current_hash
Validate(recs, start, n) ==
    LET r   == Recompute(recs, start, n)
        bad == {j \in 1..n : r[j] # recs[j]["CurrentHash"]}
    IN  IF bad = {} THEN [valid |-> TRUE, at_index |-> -1, recomputed |-> r]
        ELSE [valid |-> FALSE,
              at_index |-> (CHOOSE j \in bad : \A m \in bad : j <= m) - 1,
              recomputed |-> r]

\* No record has been tampered with, no validation has run
NoAudit == [k |-> 0, field |-> "", run |-> 0, validated |-> FALSE, through |-> 0,
            result |-> [valid |-> TRUE, at_index |-> -1, recomputed |-> <<>>]]

\* The five hashed fields and values a tamperer may write into them
HashedFields == {"CertID", "RecipientName", "CourseTitle", "DateIssued", "PreviousHash"}

TamperValues(field) ==
    CASE field = "CertID"        -> {<<"C","1">>, <<"C","2">>}
      [] field = "RecipientName" -> {<<"A","l">>, <<"B","o">>}
      [] field = "CourseTitle"   -> {<<"T">>, <<"U">>}
      [] field = "DateIssued"    -> {<<"2","0","2","4","-","0","1","-","1","0">>,
                                     <<"2","0","2","4","-","0","1","-","0","5">>}
      [] field = "PreviousHash"  -> {Rep("0", 64), Rep("0", 63) \o <<"1">>, Rep("a", 64)}

(* ------------------------------------------------------------------ *)
(* The session and the requests of api/index.py                       *)
(* ------------------------------------------------------------------ *)

\* flask.session is a dict, here the set of its <<key, value>> pairs
NoSession == {}

\* session['logged_in'] = True
LoggedIn == {<<"logged_in", TRUE>>}

\* key in session
InSession(sess, key) == \E kv \in sess : kv[1] = key

\* session[key], for a key that is in the session
SessionGet(sess, key) == (CHOOSE kv \in sess : kv[1] = key)[2]

\* session[key] = value
SessionSet(sess, key, value) == {kv \in sess : kv[1] # key} \cup {<<key, value>>}

\* session.pop(key, None)
SessionPop(sess, key) == {kv \in sess : kv[1] # key}

\* An answer: the view that gave it, its status code, whether the body of a
\* view behind login_required ran, and the form of a login POST
Reply(view, status, body, form) == [view |-> view, status |-> status, body |-> body, form |-> form]

NoForm == <<"", "">>

NoReply == Reply("none", 0, FALSE, NoForm)

\* username == 'admin' and password == 'certAuth2025#'
USERNAME == "admin"

PASSWORD == "certAuth2025#"

\* A second request: its position and the locals of its invocation of
\* chain_certificates
Peer(p, rs, n, out_rows, seen, e) ==
    [pc |-> p, rows |-> rs, i |-> n, output_rows |-> out_rows, seen_hashes |-> seen, error |-> e]

NoPeer == Peer("idle", <<>>, 0, <<>>, {}, NoError)

(* ------------------------------------------------------------------ *)
(* State                                                              *)
(* ------------------------------------------------------------------ *)

VARIABLES
    inputFile,     \* data/Certificates.csv: NoFile, or its header and rows
    csvFile,       \* the chained CSV: NoFile, or its header and rows
    jsonFile,      \* the JSON export: NoFile, or its list of records
    indexFile,     \* the hash index: NoFile, or its mapping hash -> position
    qrFiles,       \* the QR images: absolute path -> content
    pc,            \* position of the invocation
    opts,          \* arguments of the invocation
    rows,          \* rows read from the input
    i,             \* loop index (zero-based)
    output_rows,   \* records built so far
    seen_hashes,   \* hashes seen so far
    error,         \* the exception raised, or NoError
    runs,          \* number of invocations so far
    before,        \* the three artifacts when the invocation started
    chains,        \* the chains of the invocations that succeeded
    audit,         \* the tampering and validation of the exported chain
    warnings,      \* the warnings the invocation has printed
    session,       \* flask.session of the client: key -> value
    reply,         \* the last answer of login, logout, /api/status or a refusal
    peer           \* a second add_certificate request served at the same time

vars == <<inputFile, csvFile, jsonFile, indexFile, qrFiles, pc, opts, rows, i,
          output_rows, seen_hashes, error, runs, before, chains, audit, warnings,
          session, reply, peer>>

web == <<session, reply, peer>>

files == <<csvFile, jsonFile, indexFile>>

locals == <<rows, i, output_rows, seen_hashes>>

Init ==
    /\ inputFile \in InitialFiles
    /\ csvFile = NoFile
    /\ jsonFile = NoFile
    /\ indexFile = NoFile
    /\ qrFiles = <<>>
    /\ pc = "idle"
    /\ opts = OptBare
    /\ rows = <<>>
    /\ i = 0
    /\ output_rows = <<>>
    /\ seen_hashes = {}
    /\ error = NoError
    /\ runs = 0
    /\ before = [csv |-> NoFile, json |-> NoFile, index |-> NoFile]
    /\ chains = <<>>
    /\ audit = NoAudit
    /\ warnings = <<>>
    /\ session = LoggedIn
    /\ reply = NoReply
    /\ peer = NoPeer

(* ------------------------------------------------------------------ *)
(* chain_certificates                                                 *)
(* ------------------------------------------------------------------ *)

Raise(e) ==
    /\ pc' = "failed"
    /\ error' = e

\* A variant of NoDataRows that lets an input without rows through
NoDataRows_Never(rs) == FALSE

\* if not rows
NoDataRows(rs) == rs = <<>>

\* Lines 100-119 on the input file `file` with the arguments o: what the
\* invocation reads and the locals it sets
ReadRows(o, file) ==
    /\ pc \in {"idle", "done", "failed"}
    /\ runs < MaxRuns
    /\ runs' = runs + 1
    /\ opts' = o
    /\ before' = [csv |-> csvFile, json |-> jsonFile, index |-> indexFile]
    /\ warnings' = <<>>
    /\ IF ~file.exists
       THEN Raise(Error("FileNotFound", 0, <<>>)) /\ UNCHANGED locals
       ELSE IF MissingColumns(file.fieldnames) # <<>>
       THEN /\ Raise(Error("MissingColumns", 0, MissingColumns(file.fieldnames)))
            /\ UNCHANGED locals
       ELSE IF NoDataRows(file.rows)
       THEN /\ Raise(Error("EmptyInput", 0, <<>>))
            /\ rows' = file.rows
            /\ UNCHANGED <<i, output_rows, seen_hashes>>
       ELSE /\ pc' = "loop"
            /\ error' = NoError
            /\ rows' = file.rows
            /\ i' = 0
            /\ output_rows' = <<>>
            /\ seen_hashes' = {}

\* A variant of ReadInput that opens the output CSV for writing before the
\* rows are validated
ReadInput_OpensOutputFirst(o, file) ==
    /\ ReadRows(o, file)
    /\ csvFile' = [exists |-> TRUE, header |-> <<>>, rows |-> <<>>]
    /\ UNCHANGED <<jsonFile, indexFile, qrFiles, chains, audit, web>>

\* Lines 100-119: nothing is written before the loop
ReadInput(o, file) ==
    /\ ReadRows(o, file)
    /\ UNCHANGED <<files, qrFiles, chains, audit, web>>

\* main() with no path given: lines 302-307 fill json_path, index_path and
\* qr_dir in before chain_certificates is called
main ==
    /\ ReadInput(OptMain, inputFile)
    /\ UNCHANGED inputFile

\* chain_certificates called directly
chain_certificates ==
    \E o \in DirectOptions :
        /\ ReadInput(o, inputFile)
        /\ UNCHANGED inputFile

\* the loop calls _download_qr: if verification_url and qr_dir
DownloadsQr(o) == Truthy(o.base_url) /\ Truthy(o.qr_dir)

\* print(f"Warning: Failed to download QR for {cert_id or i+1}: {e}")
Warning(cert_id, n) == [cert_id |-> cert_id, number |-> n + 1]

\* One iteration of the loop of lines 122-188
ProcessRow ==
    /\ pc = "loop"
    /\ i < Len(rows)
    /\ LET r == LinkRow(i, rows[i + 1], output_rows, seen_hashes)
       IN  IF r.error # NoError
           THEN /\ Raise(r.error)
                /\ UNCHANGED <<qrFiles, locals, warnings>>
           ELSE \/ \E qr_ok \in IF DownloadsQr(opts) THEN BOOLEAN ELSE {TRUE} :
                      LET e == Enrich(r.output_row, i, opts, qr_ok, qrFiles)
                      IN  /\ output_rows' = Append(output_rows, e.row)
                          /\ seen_hashes' = AddSeen(seen_hashes, r.output_row.CurrentHash)
                          /\ qrFiles' = e.files
                          /\ warnings' = IF qr_ok THEN warnings
                                          ELSE Append(warnings, Warning(r.output_row.CertID, i))
                          /\ i' = i + 1
                          /\ UNCHANGED <<pc, error, rows>>
              \* urlretrieve is called without a timeout: the service may
              \* never answer, and the call never returns
              \/ /\ DownloadsQr(opts)
                 /\ pc' = "in_download"
                 /\ seen_hashes' = AddSeen(seen_hashes, r.output_row.CurrentHash)
                 /\ UNCHANGED <<error, rows, i, output_rows, qrFiles, warnings>>
    /\ UNCHANGED <<inputFile, files, opts, runs, before, chains, audit, web>>

\* Lines 190-205
WriteCsv ==
    /\ pc = "loop"
    /\ i = Len(rows)
    /\ csvFile' = CsvContent(output_rows, opts)
    /\ pc' = "write_json"
    /\ UNCHANGED <<inputFile, jsonFile, indexFile, qrFiles, opts, locals, error, runs, before, chains, audit, warnings, web>>

\* Lines 207-211
WriteJson ==
    /\ pc = "write_json"
    /\ jsonFile' = IF Truthy(opts.json_path) THEN JsonContent(output_rows) ELSE jsonFile
    /\ pc' = "write_index"
    /\ UNCHANGED <<inputFile, csvFile, indexFile, qrFiles, opts, locals, error, runs, before, chains, audit, warnings, web>>

\* A variant of WriteIndex that leaves an index that exists alone
WriteIndex_KeepsExisting ==
    /\ pc = "write_index"
    /\ indexFile' = IF Truthy(opts.index_path) /\ ~indexFile.exists
                    THEN IndexContent(output_rows) ELSE indexFile
    /\ pc' = "done"
    /\ chains' = Append(chains, [rows |-> rows, opts |-> opts,
                                 hashes |-> [k \in 1..Len(output_rows) |-> output_rows[k]["CurrentHash"]],
                                 prevs  |-> [k \in 1..Len(output_rows) |-> output_rows[k]["PreviousHash"]]])
    /\ UNCHANGED <<inputFile, csvFile, jsonFile, qrFiles, opts, locals, error, runs, before, audit, warnings, web>>

\* Lines 213-218, and the return
WriteIndex ==
    /\ pc = "write_index"
    /\ indexFile' = IF Truthy(opts.index_path) THEN IndexContent(output_rows) ELSE indexFile
    /\ pc' = "done"
    /\ chains' = Append(chains, [rows |-> rows, opts |-> opts,
                                 hashes |-> [k \in 1..Len(output_rows) |-> output_rows[k]["CurrentHash"]],
                                 prevs  |-> [k \in 1..Len(output_rows) |-> output_rows[k]["PreviousHash"]]])
    /\ UNCHANGED <<inputFile, csvFile, jsonFile, qrFiles, opts, locals, error, runs, before, audit, warnings, web>>

(* ------------------------------------------------------------------ *)
(* api/index.py                                                       *)
(* ------------------------------------------------------------------ *)

\* uuid.uuid4() of add_certificate and the fields of the request body
NewIds == {C1, U1}

RequestDates == {D1, DBad}

\* A variant of AppendRow that opens the file with mode "w": the row
\* replaces the rows that were there
AppendRow_Truncates(file, cert_id, date_issued) ==
    InputCsv(IF file.exists /\ file.fieldnames # <<>> THEN file.fieldnames ELSE HEADER4,
             <<InputRow(cert_id, Al, date_issued, None, None)>>)

\* csv.DictWriter over HEADER4 appends one row; the header is written when
\* the file is empty (os.stat(csv_path).st_size == 0), as it is when open()
\* has just created it.  A row shorter than the header reads back with None
\* in the columns it lacks.
AppendRow(file, cert_id, date_issued) ==
    LET row == InputRow(cert_id, Al, date_issued, None, None)
    IN  IF ~file.exists \/ (file.fieldnames = <<>> /\ file.rows = <<>>)
        THEN InputCsv(HEADER4, <<row>>)
        ELSE InputCsv(file.fieldnames, Append(file.rows, row))

\* POST /api/add-certificate, up to the first loop iteration
add_certificate ==
    \E cert_id \in NewIds, date_issued \in RequestDates :
        /\ inputFile.exists => Len(inputFile.rows) < MaxRows
        /\ inputFile' = AppendRow(inputFile, cert_id, date_issued)
        /\ ReadInput(OptApiAdd, inputFile')

\* POST /api/regenerate-data, up to the first loop iteration
regenerate_data ==
    /\ ReadInput(OptApiRegen, inputFile)
    /\ UNCHANGED inputFile

Next ==
    \/ main
    \/ chain_certificates
    \/ ProcessRow
    \/ WriteCsv
    \/ WriteJson
    \/ WriteIndex
    \/ add_certificate
    \/ regenerate_data

Spec == Init /\ [][Next]_vars

(* ------------------------------------------------------------------ *)
(* Tampering and validation of the exported chain                     *)
(* ------------------------------------------------------------------ *)

\* One hashed field of the persisted record at position k is changed
Tamper ==
    /\ pc = "done"
    /\ Truthy(opts.json_path)
    /\ audit.run # runs
    /\ \E k \in 1..Len(jsonFile.records), field \in HashedFields :
          \E v \in TamperValues(field) \ {jsonFile.records[k][field]} :
              /\ jsonFile' = [jsonFile EXCEPT !.records[k][field] = v]
              /\ audit' = [NoAudit EXCEPT !.k = k, !.field = field, !.run = runs]
    /\ UNCHANGED <<inputFile, csvFile, indexFile, qrFiles, pc, opts, locals, error,
                   runs, before, chains, warnings, web>>

\* The Validator runs over the persisted chain, tampered with or not, from
\* the starting previous hash of the build that wrote it, through a target
\* record or to the end of the chain
RunValidator ==
    /\ pc = "done"
    /\ Truthy(opts.json_path)
    /\ ~(audit.run = runs /\ audit.validated)
    /\ \E n \in 1..Len(jsonFile.records) :
          audit' = [(IF audit.run = runs THEN audit ELSE [NoAudit EXCEPT !.run = runs])
                       EXCEPT !.validated = TRUE,
                              !.through = n,
                              !.result = Validate(jsonFile.records, output_rows[1]["PreviousHash"], n)]
    /\ UNCHANGED <<inputFile, files, qrFiles, pc, opts, locals, error, runs, before, chains, warnings, web>>

\* Input files of three rows
VerifyFiles ==
    {InputCsv(REQUIRED_COLUMNS, <<InputRow(c1, Al, D1, p, None), InputRow(c2, n, D1, None, None),
                                  InputRow(C1, Al, d, None, None)>>) :
        c1 \in {C1, C2sp}, c2 \in {C1, C2sp}, n \in {Al, Bo}, d \in {D1, D2},
        p \in {None, Rep("0", 63) \o <<"3">>}}

InitVerify ==
    /\ inputFile \in VerifyFiles
    /\ csvFile = NoFile
    /\ jsonFile = NoFile
    /\ indexFile = NoFile
    /\ qrFiles = <<>>
    /\ pc = "idle"
    /\ opts = OptBare
    /\ rows = <<>>
    /\ i = 0
    /\ output_rows = <<>>
    /\ seen_hashes = {}
    /\ error = NoError
    /\ runs = 0
    /\ before = [csv |-> NoFile, json |-> NoFile, index |-> NoFile]
    /\ chains = <<>>
    /\ audit = NoAudit
    /\ warnings = <<>>
    /\ session = LoggedIn
    /\ reply = NoReply
    /\ peer = NoPeer

\* one build, then tampering and validation
NextVerify ==
    \/ pc = "idle" /\ main
    \/ pc = "idle" /\ chain_certificates
    \/ ProcessRow
    \/ WriteCsv
    \/ WriteJson
    \/ WriteIndex
    \/ Tamper
    \/ RunValidator

SpecVerify == InitVerify /\ [][NextVerify]_vars

(* ------------------------------------------------------------------ *)
(* One build that runs to its end                                     *)
(* ------------------------------------------------------------------ *)

\* a step of the invocation in progress
BuildStep == ProcessRow \/ WriteCsv \/ WriteJson \/ WriteIndex

NextLive ==
    \/ pc = "idle" /\ main
    \/ pc = "idle" /\ chain_certificates
    \/ pc = "idle" /\ regenerate_data
    \/ BuildStep

\* a step that takes the invocation on from a position in its loop or
\* among its writes: to another position, or to the next row.  The first
\* disjunct is an instance of the second, written out with every variable
\* so that ENABLED <<Advance>>_vars is evaluated without the hash.
Advance ==
    /\ pc \in {"loop", "write_json", "write_index"}
    /\ \/ /\ pc' = "failed"
          /\ UNCHANGED <<inputFile, csvFile, jsonFile, indexFile, qrFiles, opts, rows, i,
                         output_rows, seen_hashes, error, runs, before, chains, audit, warnings, web>>
       \/ pc' # pc
       \/ i' = i + 1

\* the interpreter keeps executing the invocation it has started
SpecLive == InitVerify /\ [][NextLive]_vars /\ WF_vars(Advance)

(* ------------------------------------------------------------------ *)
(* Builds on a file system whose writes can fail                      *)
(* ------------------------------------------------------------------ *)

\* A file that open(path, "w") has truncated and that nothing was written to
TruncatedCsv   == [exists |-> TRUE, header |-> <<>>, rows |-> <<>>]

TruncatedJson  == [exists |-> TRUE, records |-> <<>>]

TruncatedIndex == [exists |-> TRUE, map |-> <<>>]

\* os.makedirs, open or a write of lines 200-205, 209-211 or 215-218 raises
\* OSError: the file is as it was (makedirs or open failed) or truncated
\* (a write failed), the exception leaves chain_certificates and the
\* writes after it are not reached
WriteFails ==
    /\ \/ /\ pc = "loop"
          /\ i = Len(rows)
          /\ csvFile' \in {csvFile, TruncatedCsv}
          /\ Raise(Error("OSError", 0, <<"csv">>))
          /\ UNCHANGED <<jsonFile, indexFile>>
       \/ /\ pc = "write_json"
          /\ Truthy(opts.json_path)
          /\ jsonFile' \in {jsonFile, TruncatedJson}
          /\ Raise(Error("OSError", 0, <<"json">>))
          /\ UNCHANGED <<csvFile, indexFile>>
       \/ /\ pc = "write_index"
          /\ Truthy(opts.index_path)
          /\ indexFile' \in {indexFile, TruncatedIndex}
          /\ Raise(Error("OSError", 0, <<"index">>))
          /\ UNCHANGED <<csvFile, jsonFile>>
    /\ UNCHANGED <<inputFile, qrFiles, opts, locals, runs, before, chains, audit, warnings, web>>

\* Input files of one and of two rows that link without an error; the
\* hash cells of a second row are absent, or hold what a caller put there
WriteFiles ==
    {InputCsv(REQUIRED_COLUMNS, <<InputRow(C1, Al, D1, p, None)>>) :
        p \in {None, Rep("0", 63) \o <<"3">>}}
      \cup {InputCsv(REQUIRED_COLUMNS, <<InputRow(C1, Al, D1, p, None), s>>) :
                p \in {None, Rep("0", 63) \o <<"3">>},
                s \in {InputRow(C2sp, Al, D1, None, None),
                       InputRow(C2sp, Al, D2, <<"z">>, Rep("A", 64))}}

InitWrites ==
    /\ inputFile \in WriteFiles
    /\ csvFile = NoFile
    /\ jsonFile = NoFile
    /\ indexFile = NoFile
    /\ qrFiles = <<>>
    /\ pc = "idle"
    /\ opts = OptBare
    /\ rows = <<>>
    /\ i = 0
    /\ output_rows = <<>>
    /\ seen_hashes = {}
    /\ error = NoError
    /\ runs = 0
    /\ before = [csv |-> NoFile, json |-> NoFile, index |-> NoFile]
    /\ chains = <<>>
    /\ audit = NoAudit
    /\ warnings = <<>>
    /\ session = LoggedIn
    /\ reply = NoReply
    /\ peer = NoPeer

NextWrites ==
    \/ main
    \/ add_certificate
    \/ ProcessRow
    \/ WriteCsv
    \/ WriteJson
    \/ WriteIndex
    \/ WriteFails

SpecWrites == InitWrites /\ [][NextWrites]_vars

(* ------------------------------------------------------------------ *)
(* Login, logout and the views behind login_required                  *)
(* ------------------------------------------------------------------ *)

\* A variant of Admits that lets every request through
Admits_Everyone(sess) == TRUE

\* login_required lets the request through: 'logged_in' in session
Admits(sess) == InSession(sess, "logged_in")

\* form fields of a login POST
Usernames == {"admin", "Admin"}

Passwords == {"certAuth2025#", "certauth2025#"}

\* the views behind login_required whose bodies work outside the chain
\* builder, each with the path it is routed at being under /api/ or not
OtherViews ==
    {<<"admin_panel", FALSE>>, <<"regenerate_pdfs", TRUE>>,
     <<"regenerate_mail_merge", TRUE>>, <<"download_mail_merge", TRUE>>}

\* _wants_json_response
_wants_json_response(api_path, accepts_json) == api_path \/ accepts_json

\* the requests of the session are served one after the other: no request
\* is taken while a view is still at work
AtRest == pc \in {"idle", "done", "failed"}

\* GET and POST /login
login ==
    /\ AtRest
    /\ \/ reply' = Reply("login", 200, FALSE, NoForm) /\ UNCHANGED session
       \/ \E username \in Usernames, password \in Passwords :
             IF username = USERNAME /\ password = PASSWORD
             THEN /\ session' = SessionSet(session, "logged_in", TRUE)
                  /\ reply' = Reply("login", 302, FALSE, <<username, password>>)
             ELSE /\ reply' = Reply("login", 200, FALSE, <<username, password>>)
                  /\ UNCHANGED session
    /\ UNCHANGED <<inputFile, files, qrFiles, pc, opts, locals, error, runs, before,
                   chains, audit, warnings, peer>>

\* POST /logout
logout ==
    /\ AtRest
    /\ session' = SessionPop(session, "logged_in")
    /\ reply' = Reply("logout", 302, FALSE, NoForm)
    /\ UNCHANGED <<inputFile, files, qrFiles, pc, opts, locals, error, runs, before,
                   chains, audit, warnings, peer>>

\* GET /api/status
api_status ==
    /\ AtRest
    /\ reply' = Reply("api_status",
                      IF InSession(session, "logged_in") /\ SessionGet(session, "logged_in")
                      THEN 200 ELSE 401,
                      FALSE, NoForm)
    /\ UNCHANGED <<inputFile, files, qrFiles, pc, opts, locals, error, runs, before,
                   chains, audit, warnings, session, peer>>

\* wrapped_view of login_required, when the request is not let through:
\* 401 for a JSON client, a redirect to the login page otherwise
Refuse(view, api_path) ==
    /\ AtRest
    /\ ~Admits(session)
    /\ \E accepts_json \in BOOLEAN :
          reply' = Reply(view, IF _wants_json_response(api_path, accepts_json) THEN 401 ELSE 302,
                         FALSE, NoForm)
    /\ UNCHANGED <<inputFile, files, qrFiles, pc, opts, locals, error, runs, before,
                   chains, audit, warnings, session, peer>>

\* login_required around admin_panel, regenerate_pdfs, regenerate_mail_merge
\* and download_mail_merge: the body runs and answers 200, or 500 from its
\* except clause
login_required ==
    \E v \in OtherViews :
        \/ Refuse(v[1], v[2])
        \/ /\ AtRest
           /\ Admits(session)
           /\ \E status \in {200, 500} : reply' = Reply(v[1], status, TRUE, NoForm)
           /\ UNCHANGED <<inputFile, files, qrFiles, pc, opts, locals, error, runs, before,
                          chains, audit, warnings, session, peer>>

\* login_required around add_certificate
api_add_certificate ==
    \/ Refuse("add_certificate", TRUE)
    \/ Admits(session) /\ add_certificate

\* login_required around regenerate_data
api_regenerate_data ==
    \/ Refuse("regenerate_data", TRUE)
    \/ Admits(session) /\ regenerate_data

\* The source CSV of the requests: a header and one row
AuthFiles == {InputCsv(REQUIRED_COLUMNS, <<InputRow(C2sp, Al, D1, None, None)>>)}

\* a client without a session cookie
InitAuth ==
    /\ inputFile \in AuthFiles
    /\ csvFile = NoFile
    /\ jsonFile = NoFile
    /\ indexFile = NoFile
    /\ qrFiles = <<>>
    /\ pc = "idle"
    /\ opts = OptBare
    /\ rows = <<>>
    /\ i = 0
    /\ output_rows = <<>>
    /\ seen_hashes = {}
    /\ error = NoError
    /\ runs = 0
    /\ before = [csv |-> NoFile, json |-> NoFile, index |-> NoFile]
    /\ chains = <<>>
    /\ audit = NoAudit
    /\ warnings = <<>>
    /\ session = NoSession
    /\ reply = NoReply
    /\ peer = NoPeer

NextAuth ==
    \/ login
    \/ logout
    \/ api_status
    \/ login_required
    \/ api_add_certificate
    \/ api_regenerate_data
    \/ ProcessRow
    \/ WriteCsv
    \/ WriteJson
    \/ WriteIndex

SpecAuth == InitAuth /\ [][NextAuth]_vars

(* ------------------------------------------------------------------ *)
(* Two add_certificate requests served at the same time               *)
(* ------------------------------------------------------------------ *)

\* uuid.uuid4() of the second request
PeerIds == {<<"U","2">>}

\* The second request appends its row (lines 78-91)
peer_append ==
    /\ peer.pc = "idle"
    /\ \E cert_id \in PeerIds :
          inputFile' = AppendRow(inputFile, cert_id, D1)
    /\ peer' = [peer EXCEPT !.pc = "appended"]
    /\ UNCHANGED <<files, qrFiles, pc, opts, locals, error, runs, before, chains, audit,
                   warnings, session, reply>>

\* chain_certificates of the second request reads the source CSV as it is
\* now (lines 100-119)
peer_read ==
    /\ peer.pc = "appended"
    /\ peer' = IF MissingColumns(inputFile.fieldnames) # <<>>
               THEN Peer("failed", <<>>, 0, <<>>, {},
                         Error("MissingColumns", 0, MissingColumns(inputFile.fieldnames)))
               ELSE IF NoDataRows(inputFile.rows)
               THEN Peer("failed", <<>>, 0, <<>>, {}, Error("EmptyInput", 0, <<>>))
               ELSE Peer("loop", inputFile.rows, 0, <<>>, {}, NoError)
    /\ UNCHANGED <<inputFile, files, qrFiles, pc, opts, locals, error, runs, before, chains,
                   audit, warnings, session, reply>>

\* One iteration of the loop of the second request (lines 122-188), its
\* download succeeding or raising
peer_ProcessRow ==
    /\ peer.pc = "loop"
    /\ peer.i < Len(peer.rows)
    /\ LET r == LinkRow(peer.i, peer.rows[peer.i + 1], peer.output_rows, peer.seen_hashes)
       IN  IF r.error # NoError
           THEN /\ peer' = [peer EXCEPT !.pc = "failed", !.error = r.error]
                /\ UNCHANGED qrFiles
           ELSE \E qr_ok \in BOOLEAN :
                   LET e == Enrich(r.output_row, peer.i, OptApiAdd, qr_ok, qrFiles)
                   IN  /\ peer' = [peer EXCEPT !.output_rows = Append(peer.output_rows, e.row),
                                               !.seen_hashes = AddSeen(peer.seen_hashes,
                                                                       r.output_row.CurrentHash),
                                               !.i = peer.i + 1]
                       /\ qrFiles' = e.files
    /\ UNCHANGED <<inputFile, files, pc, opts, locals, error, runs, before, chains, audit,
                   warnings, session, reply>>

\* The three writes of the second request (lines 190-205, 207-211, 213-218)
peer_WriteCsv ==
    /\ peer.pc = "loop"
    /\ peer.i = Len(peer.rows)
    /\ csvFile' = CsvContent(peer.output_rows, OptApiAdd)
    /\ peer' = [peer EXCEPT !.pc = "write_json"]
    /\ UNCHANGED <<inputFile, jsonFile, indexFile, qrFiles, pc, opts, locals, error, runs,
                   before, chains, audit, warnings, session, reply>>

peer_WriteJson ==
    /\ peer.pc = "write_json"
    /\ jsonFile' = JsonContent(peer.output_rows)
    /\ peer' = [peer EXCEPT !.pc = "write_index"]
    /\ UNCHANGED <<inputFile, csvFile, indexFile, qrFiles, pc, opts, locals, error, runs,
                   before, chains, audit, warnings, session, reply>>

peer_WriteIndex ==
    /\ peer.pc = "write_index"
    /\ indexFile' = IndexContent(peer.output_rows)
    /\ peer' = [peer EXCEPT !.pc = "done"]
    /\ UNCHANGED <<inputFile, csvFile, jsonFile, qrFiles, pc, opts, locals, error, runs,
                   before, chains, audit, warnings, session, reply>>

\* The source CSV before the two requests: a header and no row, or one row
RaceFiles ==
    {InputCsv(REQUIRED_COLUMNS, <<>>),
     InputCsv(REQUIRED_COLUMNS, <<InputRow(C2sp, Al, D1, None, None)>>)}

InitRace ==
    /\ inputFile \in RaceFiles
    /\ csvFile = NoFile
    /\ jsonFile = NoFile
    /\ indexFile = NoFile
    /\ qrFiles = <<>>
    /\ pc = "idle"
    /\ opts = OptBare
    /\ rows = <<>>
    /\ i = 0
    /\ output_rows = <<>>
    /\ seen_hashes = {}
    /\ error = NoError
    /\ runs = 0
    /\ before = [csv |-> NoFile, json |-> NoFile, index |-> NoFile]
    /\ chains = <<>>
    /\ audit = NoAudit
    /\ warnings = <<>>
    /\ session = LoggedIn
    /\ reply = NoReply
    /\ peer = NoPeer

\* one request by each of two threads of the server, their steps interleaved
NextRace ==
    \/ pc = "idle" /\ add_certificate
    \/ ProcessRow
    \/ WriteCsv
    \/ WriteJson
    \/ WriteIndex
    \/ peer_append
    \/ peer_read
    \/ peer_ProcessRow
    \/ peer_WriteCsv
    \/ peer_WriteJson
    \/ peer_WriteIndex

SpecRace == InitRace /\ [][NextRace]_vars

(* ------------------------------------------------------------------ *)
(* Properties                                                         *)
(* ------------------------------------------------------------------ *)

\* the build has left the loop without an error
Succeeded == pc \in {"write_json", "write_index", "done"}

HexSet == {"0","1","2","3","4","5","6","7","8","9","a","b","c","d","e","f"}

IsLowerHex64(s) == Len(s) = 64 /\ \A k \in 1..Len(s) : s[k] \in HexSet

\* the normalized fields of input row r, the date None if it does not parse
Normalized(r) ==
    <<Strip(IF r.CertID = None THEN <<>> ELSE r.CertID),
      Strip(IF r.RecipientName = None THEN <<>> ELSE r.RecipientName),
      Strip(IF r.CourseTitle = None THEN <<>> ELSE r.CourseTitle),
      _normalize_date(r.DateIssued)>>

Linked(recs) ==
    \A k \in 2..Len(recs) : recs[k]["PreviousHash"] = recs[k - 1]["CurrentHash"]

\* C1: in every chain of a successful build, in memory, in the JSON export
\* and in the chained CSV (columns 5 and 6), the PreviousHash of the record
\* at each position after the first is the CurrentHash of the record before it.
C1_ChainLinkage ==
    /\ Succeeded => Linked(output_rows)
    /\ jsonFile.exists => Linked(jsonFile.records)
    /\ csvFile.exists =>
          \A k \in 2..Len(csvFile.rows) : csvFile.rows[k][5] = csvFile.rows[k - 1][6]

C1_Witness ==
    /\ pc = "done"
    /\ Len(output_rows) = 3
    /\ jsonFile.exists /\ jsonFile.records = output_rows
    /\ output_rows[2]["PreviousHash"] # output_rows[3]["PreviousHash"]

\* C2: an invocation that fails with MissingColumns, EmptyInput, InvalidDate,
\* InvalidHashFormat or DuplicateHash leaves the chained CSV, the JSON export
\* and the hash index as they were when it started.
C2_FailureWritesNothing ==
    (pc = "failed" /\ error.kind \in {"MissingColumns", "EmptyInput", "InvalidDate",
                                      "InvalidHashFormat", "DuplicateHash"})
        => /\ csvFile = before.csv
           /\ jsonFile = before.json
           /\ indexFile = before.index

\* the third row has an invalid date and the artifacts of an earlier build exist
C2_Witness ==
    /\ pc = "failed"
    /\ error.kind = "InvalidDate"
    /\ i = 2
    /\ Len(rows) = 3
    /\ csvFile.exists /\ jsonFile.exists /\ indexFile.exists
    /\ Len(csvFile.rows) = 2

\* a record of the chain exported by the last build was tampered with and
\* the Validator has run to the end of the chain
Tampered ==
    /\ pc = "done" /\ audit.k > 0 /\ audit.run = runs /\ audit.validated
    /\ audit.through = Len(jsonFile.records)

\* the hash input of the linker for record j of the chain it built
LinkerInput(j) ==
    output_rows[j]["CertID"] \o <<"|">> \o output_rows[j]["RecipientName"] \o <<"|">>
        \o output_rows[j]["CourseTitle"] \o <<"|">> \o output_rows[j]["DateIssued"] \o <<"|">>
        \o output_rows[j]["PreviousHash"]

\* the hash input of the Validator for record j of the persisted chain
ValidatorInput(j) ==
    jsonFile.records[j]["CertID"] \o <<"|">> \o jsonFile.records[j]["RecipientName"] \o <<"|">>
        \o jsonFile.records[j]["CourseTitle"] \o <<"|">> \o jsonFile.records[j]["DateIssued"] \o <<"|">>
        \o (IF j = 1 THEN output_rows[1]["PreviousHash"] ELSE audit.result.recomputed[j - 1])

\* the hash separates every hash input of the Validator from the linker's
\* input for the same record, where the two differ
NoCollision ==
    \A j \in 1..Len(output_rows) :
        LinkerInput(j) # ValidatorInput(j)
            => _sha256_hex(LinkerInput(j)) # _sha256_hex(ValidatorInput(j))

BrokenFrom(k) ==
    /\ ~audit.result.valid
    /\ audit.result.at_index = k - 1
    /\ \A j \in (k + 1)..Len(jsonFile.records) :
          audit.result.recomputed[j] # jsonFile.records[j]["CurrentHash"]

C3_PreviousHashUndetected ==
    /\ Tampered
    /\ audit.field = "PreviousHash"
    /\ audit.result.valid

\* the Validator has run over the chain exported by the last build
Validated == pc = "done" /\ audit.run = runs /\ audit.validated

\* record j of the persisted chain passes: the hash of its four content
\* fields and the running hash is its stored current_hash
StepMatches(j) == _sha256_hex(ValidatorInput(j)) = jsonFile.records[j]["CurrentHash"]

C11_BrokenReached ==
    /\ Validated
    /\ ~audit.result.valid
    /\ audit.result.at_index >= 1

\* C4: the CurrentHash of every output record is the hash of its own
\* CertID, RecipientName, CourseTitle, DateIssued and PreviousHash, in that
\* order, joined by "|".
OwnHash(rec) ==
    _sha256_hex(rec["CertID"] \o <<"|">> \o rec["RecipientName"] \o <<"|">>
                  \o rec["CourseTitle"] \o <<"|">> \o rec["DateIssued"] \o <<"|">>
                  \o rec["PreviousHash"])

C4_HashOfOwnFields ==
    /\ \A k \in 1..Len(output_rows) : output_rows[k]["CurrentHash"] = OwnHash(output_rows[k])
    /\ jsonFile.exists =>
          \A k \in 1..Len(jsonFile.records) :
              jsonFile.records[k]["CurrentHash"] = OwnHash(jsonFile.records[k])

C4_Witness ==
    /\ pc = "done"
    /\ jsonFile.exists /\ jsonFile.records = output_rows
    /\ Len(output_rows) >= 2
    /\ output_rows[1]["CertID"] # output_rows[1]["RecipientName"]
    /\ output_rows[1]["PreviousHash"] # GENESIS_HASH

\* the invocation is in or past its loop
Building == pc \in {"loop", "in_download", "write_json", "write_index", "done"}

\* the positions of the records built without a QRCodePath
WithoutQrPath == {k \in 1..Len(output_rows) : "QRCodePath" \notin DOMAIN output_rows[k]}

\* C12: a failed QR download is logged as a warning and goes no further:
\* no invocation fails with an error other than the fatal kinds, the
\* records of the failed downloads are the ones warned about and carry no
\* QRCodePath, their PreviousHash and CurrentHash are the linked hash and the
\* hash of their own fields as for any record, no row is skipped, and a
\* finished build has written the CSV with an empty QRCodePath cell for
\* them, and the JSON export and the index if requested.
C12_QrFailureTolerated ==
    /\ pc = "failed" => error.kind \in {"FileNotFound", "MissingColumns", "EmptyInput",
                                        "InvalidDate", "InvalidHashFormat", "DuplicateHash"}
    /\ (Building /\ ~DownloadsQr(opts)) => warnings = <<>>
    /\ (Building /\ DownloadsQr(opts)) =>
          /\ Len(output_rows) = i
          /\ {warnings[w].number : w \in 1..Len(warnings)} = WithoutQrPath
          /\ Len(warnings) = Cardinality(WithoutQrPath)
          /\ \A k \in WithoutQrPath :
                /\ output_rows[k]["CurrentHash"] = OwnHash(output_rows[k])
                /\ k > 1 => output_rows[k]["PreviousHash"] = output_rows[k - 1]["CurrentHash"]
                /\ "VerificationURL" \in DOMAIN output_rows[k]
    /\ (pc = "done" /\ DownloadsQr(opts)) =>
          /\ csvFile.exists /\ Len(csvFile.rows) = Len(rows)
          /\ \A k \in 1..Len(rows) :
                \A col \in 1..Len(csvFile.header) :
                    csvFile.header[col] = "QRCodePath" =>
                        (csvFile.rows[k][col] = <<>> <=> k \in WithoutQrPath)
          /\ Truthy(opts.json_path) => jsonFile.exists /\ jsonFile.records = output_rows
          /\ Truthy(opts.index_path) =>
                indexFile.exists /\ Cardinality(DOMAIN indexFile.map) = Len(rows)

\* a finished build of three rows in which a download failed before and
\* after one that succeeded, with all three artifacts written
C12_Witness ==
    /\ pc = "done"
    /\ Len(rows) = 3
    /\ WithoutQrPath = {1, 3}
    /\ Len(warnings) = 2
    /\ Truthy(opts.json_path) /\ Truthy(opts.index_path)
    /\ Len(jsonFile.records) = 3
    /\ Cardinality(DOMAIN indexFile.map) = 3

\* C13: builds of the same rows export the same PreviousHash and the same
\* CurrentHash at every position, whatever base_url, qr_dir, qr_size,
\* add_qr_url and qr_absolute were and whether downloads failed; and the
\* two hashes of an exported record are never the value of an enrichment
\* field of that record.
C13_EnrichmentNotHashed ==
    /\ \A a, b \in 1..Len(chains) :
          chains[a].rows = chains[b].rows =>
              /\ chains[a].prevs = chains[b].prevs
              /\ chains[a].hashes = chains[b].hashes
    /\ Building =>
          \A k \in 1..Len(output_rows) :
              /\ output_rows[k]["CurrentHash"] = OwnHash(output_rows[k])
              /\ \A f \in DOMAIN output_rows[k] \ {"PreviousHash", "CurrentHash"} :
                    /\ output_rows[k][f] # output_rows[k]["CurrentHash"]
                    /\ output_rows[k][f] # output_rows[k]["PreviousHash"]

\* two builds of the same rows that differ in base_url, qr_size, add_qr_url
\* and qr_absolute, one of them with a failed download
C13_Witness ==
    /\ Len(chains) = 2
    /\ chains[1].rows = chains[2].rows
    /\ Len(chains[1].prevs) >= 2
    /\ chains[1].opts.qr_size # chains[2].opts.qr_size
    /\ chains[1].opts.base_url # chains[2].opts.base_url
    /\ chains[1].opts.add_qr_url # chains[2].opts.add_qr_url
    /\ chains[1].opts.qr_absolute # chains[2].opts.qr_absolute
    /\ warnings # <<>>

\* the required columns that the header of the input file lacks
Lacking(file) ==
    {REQUIRED_COLUMNS[c] : c \in 1..Len(REQUIRED_COLUMNS)}
        \ {file.fieldnames[c] : c \in 1..Len(file.fieldnames)}

\* C14: an invocation that starts on an input whose header lacks a required
\* column fails at once with MissingColumns, its message lists the lacking
\* columns and no other, each once, and the step reads no row and writes no
\* artifact and no QR image.
C14_MissingColumnsFirst ==
    [][(runs' = runs + 1 /\ inputFile'.exists /\ Lacking(inputFile') # {}) =>
         /\ pc' = "failed"
         /\ error'.kind = "MissingColumns"
         /\ {error'.value[c] : c \in 1..Len(error'.value)} = Lacking(inputFile')
         /\ Len(error'.value) = Cardinality(Lacking(inputFile'))
         /\ UNCHANGED <<rows, i, output_rows, seen_hashes, csvFile, jsonFile, indexFile, qrFiles>>]_vars

\* the input has data rows and lacks two columns
C14_Witness ==
    /\ pc = "failed"
    /\ error.kind = "MissingColumns"
    /\ Len(error.value) = 2
    /\ Len(inputFile.rows) >= 2
    /\ rows = <<>>

\* C15: an invocation that starts on an input with the required columns
\* and no data row fails with EmptyInput, builds no record and writes no
\* artifact; and no exported chain, in the CSV, the JSON export or the
\* index, is empty.
C15_EmptyInputRejected ==
    /\ (pc = "failed" /\ error.kind = "EmptyInput") =>
          /\ rows = <<>>
          /\ csvFile = before.csv /\ jsonFile = before.json /\ indexFile = before.index
    /\ (pc \notin {"idle", "failed"} /\ inputFile.exists) => rows # <<>>
    /\ (inputFile.exists /\ Lacking(inputFile) = {} /\ inputFile.rows = <<>>) =>
          (pc = "idle" \/ (pc = "failed" /\ error.kind = "EmptyInput"))
    /\ csvFile.exists => Len(csvFile.rows) >= 1
    /\ jsonFile.exists => Len(jsonFile.records) >= 1
    /\ indexFile.exists => DOMAIN indexFile.map # {}

\* two invocations on a header without rows have both failed
C15_Witness ==
    /\ pc = "failed"
    /\ error.kind = "EmptyInput"
    /\ runs = 2
    /\ inputFile.fieldnames = REQUIRED_COLUMNS
    /\ ~csvFile.exists /\ ~jsonFile.exists /\ ~indexFile.exists

\* C16: when the DateIssued of a row does not parse, the build fails with
\* InvalidDate and the message names the row (i + 2, counting the header)
\* and the date as read.
C16_InvalidDateNamesRow ==
    (pc = "failed" /\ error.kind = "InvalidDate") =>
        /\ error.row = i + 2
        /\ error.value = rows[i + 1].DateIssued

\* an invalid date has aborted a build: the message quotes the (trimmed)
\* value and names no row
C16_NoRowInMessage ==
    /\ pc = "failed"
    /\ error.kind = "InvalidDate"
    /\ i = 2
    /\ error.row = 0
    /\ error.value = Strip(rows[3].DateIssued)

\* the first three cells of input row r, trimmed
TrimmedCells(r) == <<Normalized(r)[1], Normalized(r)[2], Normalized(r)[3]>>

\* C17: a successful build of N rows exports N records, in memory, in the
\* CSV and in the JSON export, and the record at each position carries the
\* trimmed CertID, RecipientName and CourseTitle of the input row at that
\* position.
C17_OrderPreserved ==
    Succeeded =>
        /\ Len(output_rows) = Len(rows)
        /\ \A k \in 1..Len(rows) :
              <<output_rows[k]["CertID"], output_rows[k]["RecipientName"],
                output_rows[k]["CourseTitle"]>> = TrimmedCells(rows[k])
        /\ Len(csvFile.rows) = Len(rows)
        /\ \A k \in 1..Len(rows) :
              <<csvFile.rows[k][1], csvFile.rows[k][2], csvFile.rows[k][3]>> = TrimmedCells(rows[k])
        /\ (pc = "done" /\ Truthy(opts.json_path)) =>
              /\ Len(jsonFile.records) = Len(rows)
              /\ \A k \in 1..Len(rows) :
                    <<jsonFile.records[k]["CertID"], jsonFile.records[k]["RecipientName"],
                      jsonFile.records[k]["CourseTitle"]>> = TrimmedCells(rows[k])

\* three rows with three different CertID cells, one of them padded, have
\* been exported to the CSV and the JSON export
C17_Witness ==
    /\ pc = "done"
    /\ Truthy(opts.json_path)
    /\ Len(rows) = 3
    /\ Cardinality({jsonFile.records[k]["CertID"] : k \in 1..3}) = 3
    /\ \E k \in 1..3 : rows[k].CertID # csvFile.rows[k][1]

\* the hash index holds exactly the hashes of the rows of the chained CSV,
\* each with the zero-based position of its row
IndexMatchesCsv ==
    /\ indexFile.exists
    /\ csvFile.exists
    /\ DOMAIN indexFile.map = {csvFile.rows[k][6] : k \in 1..Len(csvFile.rows)}
    /\ \A k \in 1..Len(csvFile.rows) : indexFile.map[csvFile.rows[k][6]] = k - 1

\* C18 as stated: after every successful call of chain_certificates the hash
\* index is that of the chain just written to the CSV.
C18_IndexAlwaysRebuilt == pc = "done" => IndexMatchesCsv

\* C18, amended: after every successful call that is given an index path,
\* as every call through main() and the API is, the hash index is that of
\* the chain just written to the CSV.
C18_IndexRebuiltWhenRequested ==
    (pc = "done" /\ Truthy(opts.index_path)) => IndexMatchesCsv

\* a build has replaced the index of an earlier build of fewer rows
C18_Witness ==
    /\ pc = "done"
    /\ Truthy(opts.index_path)
    /\ before.index.exists
    /\ DOMAIN before.index.map # DOMAIN indexFile.map
    /\ Len(csvFile.rows) = 3

\* a direct call without index_path has written the CSV and left no index
C18_NoIndexWritten ==
    /\ pc = "done"
    /\ ~Truthy(opts.index_path)
    /\ csvFile.exists
    /\ ~indexFile.exists

\* the position of column name c in the header of the chained CSV, 0 if it
\* is not there
HeaderPos(c) ==
    IF \E k \in 1..Len(csvFile.header) : csvFile.header[k] = c
    THEN CHOOSE k \in 1..Len(csvFile.header) : csvFile.header[k] = c
    ELSE 0

\* C19: the header of the chained CSV just written is the six required
\* columns in their order, then VerificationURL if base_url was given,
\* QRCodeURL if add_qr_url was set and QRCodePath if qr_dir was given, in
\* that order and nothing else, whatever the rows and the outcomes of the
\* downloads.
C19_HeaderFromOptions ==
    Succeeded =>
        /\ SubSeq(csvFile.header, 1, 6) =
              <<"CertID", "RecipientName", "CourseTitle", "DateIssued", "PreviousHash", "CurrentHash">>
        /\ Len(csvFile.header) = 6 + (IF Truthy(opts.base_url) THEN 1 ELSE 0)
                                   + (IF opts.add_qr_url THEN 1 ELSE 0)
                                   + (IF Truthy(opts.qr_dir) THEN 1 ELSE 0)
        /\ HeaderPos("VerificationURL") # 0 <=> Truthy(opts.base_url)
        /\ HeaderPos("QRCodeURL") # 0 <=> opts.add_qr_url
        /\ HeaderPos("QRCodePath") # 0 <=> Truthy(opts.qr_dir)
        /\ Truthy(opts.base_url) => HeaderPos("VerificationURL") = 7
        /\ (opts.add_qr_url /\ Truthy(opts.qr_dir)) => HeaderPos("QRCodeURL") < HeaderPos("QRCodePath")
        /\ \A k \in 1..Len(csvFile.rows) : Len(csvFile.rows[k]) = Len(csvFile.header)

\* the header has all nine columns though every download of the build failed
C19_Witness ==
    /\ pc = "done"
    /\ Len(csvFile.header) = 9
    /\ Len(rows) >= 2
    /\ WithoutQrPath = 1..Len(rows)

\* qr_dir without base_url: the column QRCodePath is there and no image is
\* ever downloaded
C19_PathColumnWithoutBase ==
    /\ pc = "done"
    /\ ~Truthy(opts.base_url)
    /\ HeaderPos("QRCodePath") = 7

\* C20: every invocation that enters its loop ends, with success or with
\* an error, whatever the QR image service does.
C20_BuildTerminates == (pc = "loop") ~> (pc \in {"done", "failed"})

\* an invocation that enters its loop ends or stays inside _download_qr
C20_EndsUnlessDownloadHangs == (pc = "loop") ~> (pc \in {"done", "failed", "in_download"})

\* the invocation is inside _download_qr for its second row, with one
\* record built and nothing written
C20_BlockedInDownload ==
    /\ pc = "in_download"
    /\ i = 1
    /\ Len(output_rows) = 1
    /\ ~csvFile.exists

\* row i (zero-based), about to be processed, has the normalized fields of
\* an earlier record and the same previous hash
RepeatsEarlier ==
    /\ pc = "loop"
    /\ i < Len(rows)
    /\ Normalized(rows[i + 1])[4] # None
    /\ \E k \in 1..Len(output_rows) :
          /\ <<output_rows[k]["CertID"], output_rows[k]["RecipientName"],
               output_rows[k]["CourseTitle"], output_rows[k]["DateIssued"]>>
                 = Normalized(rows[i + 1])
          /\ output_rows[k]["PreviousHash"] = output_rows[i]["CurrentHash"]

\* C5: when a row has the same CertID, RecipientName, CourseTitle and
\* DateIssued as an earlier row of the build and the same previous hash, the
\* build fails at that row with DuplicateHash and writes no artifact.
C5_DuplicateRejected ==
    [][RepeatsEarlier =>
         /\ pc' = "failed"
         /\ error'.kind = "DuplicateHash"
         /\ error'.row = i + 2
         /\ UNCHANGED files]_vars

C5_Witness ==
    /\ pc = "failed"
    /\ error.kind = "DuplicateHash"
    /\ \E k \in 1..Len(output_rows) :
          /\ <<output_rows[k]["CertID"], output_rows[k]["RecipientName"],
               output_rows[k]["CourseTitle"], output_rows[k]["DateIssued"]>>
                 = Normalized(rows[i + 1])
          /\ i >= 1
          /\ output_rows[k]["PreviousHash"] = output_rows[i]["CurrentHash"]

Distinct(recs) ==
    \A j, k \in 1..Len(recs) : j # k => recs[j]["CurrentHash"] # recs[k]["CurrentHash"]

\* C6: in every chain of a successful build, in memory, in the JSON export
\* and in the chained CSV, no two positions carry the same CurrentHash.
C6_HashesDistinct ==
    /\ Succeeded => Distinct(output_rows)
    /\ jsonFile.exists => Distinct(jsonFile.records)
    /\ csvFile.exists =>
          \A j, k \in 1..Len(csvFile.rows) : j # k => csvFile.rows[j][6] # csvFile.rows[k][6]

\* a chain of three records, two of them with the same fields
C6_Witness ==
    /\ pc = "done"
    /\ Len(output_rows) = 3
    /\ \E j, k \in 1..3 :
          /\ j # k
          /\ output_rows[j]["CertID"] = output_rows[k]["CertID"]
          /\ output_rows[j]["DateIssued"] = output_rows[k]["DateIssued"]
          /\ output_rows[j]["RecipientName"] = output_rows[k]["RecipientName"]

\* hashes to look up that may not be in the chain
ProbeHashes ==
    {Rep("0", 63) \o <<HexDigits[d + 1]>> : d \in 0..15} \cup {Rep("a", 64), <<>>}

\* C7: after a successful build of N records with an index path, the hash
\* index has exactly N entries, maps the CurrentHash of each record to its
\* zero-based position, and has no entry for a hash that is not a
\* CurrentHash of the chain.
C7_IndexComplete ==
    (pc = "done" /\ Truthy(opts.index_path)) =>
        /\ indexFile.exists
        /\ Cardinality(DOMAIN indexFile.map) = Len(output_rows)
        /\ \A k \in 1..Len(output_rows) :
              /\ output_rows[k]["CurrentHash"] \in DOMAIN indexFile.map
              /\ indexFile.map[output_rows[k]["CurrentHash"]] = k - 1
        /\ \A h \in ProbeHashes :
              (\A k \in 1..Len(output_rows) : output_rows[k]["CurrentHash"] # h)
                  => h \notin DOMAIN indexFile.map

C7_Witness ==
    /\ pc = "done"
    /\ Truthy(opts.index_path)
    /\ Len(output_rows) = 3
    /\ Cardinality(DOMAIN indexFile.map) = 3
    /\ \E h \in ProbeHashes : h \notin DOMAIN indexFile.map

\* C8: two successful builds that read the same rows produce the same
\* sequence of CurrentHash values, whatever their options and whatever the
\* outcomes of their QR downloads.
C8_Deterministic ==
    \A a, b \in 1..Len(chains) :
        chains[a].rows = chains[b].rows => chains[a].hashes = chains[b].hashes

\* two builds of the same rows, with different options, one with QR images
C8_Witness ==
    /\ Len(chains) = 2
    /\ chains[1].rows = chains[2].rows
    /\ chains[1].opts # chains[2].opts
    /\ Len(chains[1].hashes) >= 2
    /\ \E k \in 1..Len(output_rows) : "QRCodePath" \in DOMAIN output_rows[k]
    /\ \E k \in 1..Len(output_rows) : "QRCodePath" \notin DOMAIN output_rows[k]

\* C9: a build gets past its first row only if the first row's previous
\* hash, trimmed and lower-cased, is 64 characters of 0-9a-f, and every
\* PreviousHash and CurrentHash of a record is such a string.
C9_OnlyHex64 ==
    /\ \A k \in 1..Len(output_rows) :
          /\ IsLowerHex64(output_rows[k]["PreviousHash"])
          /\ IsLowerHex64(output_rows[k]["CurrentHash"])
    /\ (Len(output_rows) >= 1 /\ Strip(IF rows[1].PreviousHash = None THEN <<>> ELSE rows[1].PreviousHash) # <<>>)
          => IsLowerHex64(Lower(Strip(rows[1].PreviousHash)))

\* C10: the PreviousHash of the first output record is 64 characters "0"
\* when the first input row has no PreviousHash (absent or blank), and the
\* trimmed, lower-cased input value otherwise.
C10_FirstPreviousHash ==
    Len(output_rows) >= 1 =>
        output_rows[1]["PreviousHash"] =
            IF rows[1].PreviousHash = None \/ Strip(rows[1].PreviousHash) = <<>>
            THEN Rep("0", 64)
            ELSE Lower(Strip(rows[1].PreviousHash))

\* a first row with a padded upper-case previous hash was accepted
C10_Witness ==
    /\ pc = "done"
    /\ rows[1].PreviousHash # None
    /\ Strip(rows[1].PreviousHash) # rows[1].PreviousHash
    /\ Lower(Strip(rows[1].PreviousHash)) # Strip(rows[1].PreviousHash)
    /\ csvFile.exists /\ csvFile.rows[1][5] = output_rows[1]["PreviousHash"]

\* the genesis case of C10 has happened as well
C10_GenesisReached ==
    /\ pc = "done"
    /\ rows[1].PreviousHash = None
    /\ output_rows[1]["PreviousHash"] = GENESIS_HASH

\* the invocation has made a QR download request for a record: the image
\* was written (the record carries its path), the download failed (a
\* warning was printed), or the request is still in flight
QrRequested == WithoutQrPath # 1..Len(output_rows) \/ warnings # <<>> \/ pc = "in_download"

\* C21: while input rows are still to be validated and linked, and in a
\* build that has aborted on a row, no QR download has been requested and no
\* QR image has been written for any record.
C21_EnrichmentAfterChain ==
    (/\ Len(output_rows) < Len(rows)
     /\ \/ pc \in {"loop", "in_download"}
        \/ pc = "failed" /\ error.kind \in {"InvalidDate", "InvalidHashFormat", "DuplicateHash"})
        => ~QrRequested

\* a build has aborted on its third row after it wrote the QR images of
\* the first two records
C21_DownloadedBeforeAbort ==
    /\ pc = "failed"
    /\ error.kind = "InvalidDate"
    /\ i = 2
    /\ WithoutQrPath = {}
    /\ \A k \in 1..2 : output_rows[k]["QRCodePath"] \in DOMAIN qrFiles
    /\ before.csv = NoFile /\ ~csvFile.exists

\* the six chain fields of a record, without its enrichment fields
ChainFields(rec) ==
    [CertID |-> rec["CertID"], RecipientName |-> rec["RecipientName"],
     CourseTitle |-> rec["CourseTitle"], DateIssued |-> rec["DateIssued"],
     PreviousHash |-> rec["PreviousHash"], CurrentHash |-> rec["CurrentHash"]]

\* rows rs with the PreviousHash cell of the first row set to h
StartingFrom(rs, h) == [rs EXCEPT ![1].PreviousHash = h]

\* the chain of a one-pass build of rs is, at every split of rs into a
\* segment A of m rows and a segment B of the rest, the chain of A alone
\* followed by the chain of B built from the final hash of A's chain
ComposesAt(rs, recs, m) ==
    LET a == LinkAll(SubSeq(rs, 1, m), m)
        b == LinkAll(StartingFrom(SubSeq(rs, m + 1, Len(rs)), a.output_rows[m]["CurrentHash"]),
                     Len(rs) - m)
    IN  /\ a.error = NoError
        /\ b.error = NoError
        /\ a.output_rows \o b.output_rows = [k \in 1..Len(recs) |-> ChainFields(recs[k])]

IsProperPrefix(s, t) == Len(s) < Len(t) /\ SubSeq(t, 1, Len(s)) = s

\* C22: the chain of a successful build of rows A followed by rows B is the
\* chain of A built alone, followed by the chain of B built with its first
\* row's PreviousHash set to the CurrentHash of A's last record; and when
\* rows are appended to the input, the build of the longer input gives
\* every earlier record the PreviousHash and CurrentHash it had.
C22_ExtensionComposes ==
    /\ pc = "done" => \A m \in 1..(Len(rows) - 1) : ComposesAt(rows, output_rows, m)
    /\ \A a, b \in 1..Len(chains) :
          IsProperPrefix(chains[a].rows, chains[b].rows) =>
              /\ IsProperPrefix(chains[a].hashes, chains[b].hashes)
              /\ IsProperPrefix(chains[a].prevs, chains[b].prevs)

\* a chain of two records built from a supplied previous hash has been
\* extended to three records by a build of the input with a row appended
C22_Witness ==
    /\ pc = "done"
    /\ Len(chains) = 2
    /\ Len(chains[1].rows) = 2
    /\ Len(rows) = 3
    /\ IsProperPrefix(chains[1].rows, rows)
    /\ output_rows[1]["PreviousHash"] # GENESIS_HASH
    /\ output_rows[3]["PreviousHash"] # output_rows[2]["PreviousHash"]
    /\ ComposesAt(rows, output_rows, 2)

\* the hash the loop computes for row r after the records recs, or from
\* the previous hash start when there is none
HashOfRow(recs, r, start) ==
    _sha256_hex(Normalized(r)[1] \o <<"|">> \o Normalized(r)[2] \o <<"|">> \o Normalized(r)[3]
                  \o <<"|">> \o Normalized(r)[4] \o <<"|">>
                  \o (IF recs = <<>> THEN start ELSE recs[Len(recs)]["CurrentHash"]))

\* C23: a build that fails with InvalidHashFormat or DuplicateHash at the
\* data row at zero-based position i names row i + 2 and the reason (the
\* previous hash that is not accepted, or the hash that was seen before),
\* and every row before it was linked without an error: the row named is
\* the first offending row.
C23_RowNumberReported ==
    (pc = "failed" /\ error.kind \in {"InvalidHashFormat", "DuplicateHash"}) =>
        /\ error.row = i + 2
        /\ error.row \in 2..(Len(rows) + 1)
        /\ Len(output_rows) = i
        /\ LinkAll(rows, i).error = NoError
        /\ Distinct(output_rows)
        /\ error.kind = "InvalidHashFormat" =>
              /\ i = 0
              /\ error.value = Lower(Strip(rows[1].PreviousHash))
              /\ ~_is_hex64(error.value)
        /\ error.kind = "DuplicateHash" =>
              /\ i >= 1
              /\ error.value = HashOfRow(output_rows, rows[i + 1], GENESIS_HASH)
              /\ \E k \in 1..i : output_rows[k]["CurrentHash"] = error.value

\* the third data row repeats a hash and is reported as row 4
C23_Witness ==
    /\ pc = "failed"
    /\ error.kind = "DuplicateHash"
    /\ i = 2
    /\ error.row = 4
    /\ Len(output_rows) = 2

\* a first row whose previous hash is not accepted is reported as row 2
C23_FirstRowReported ==
    /\ pc = "failed"
    /\ error.kind = "InvalidHashFormat"
    /\ error.row = 2
    /\ Len(error.value) = 63

\* C24: when one of the three writes of a build fails, the failure is
\* raised to the caller and each of the other two artifacts that the build
\* was asked for is written, whole, from the chain of this build.
C24_WritesIndependent ==
    (pc = "failed" /\ error.kind = "OSError") =>
        /\ error.value # <<"csv">> => csvFile = CsvContent(output_rows, opts)
        /\ (error.value # <<"json">> /\ Truthy(opts.json_path)) => jsonFile = JsonContent(output_rows)
        /\ (error.value # <<"index">> /\ Truthy(opts.index_path)) => indexFile = IndexContent(output_rows)

\* the write of the JSON export has failed: the chained CSV holds the chain
\* of this build, the hash index was not written and is still that of the
\* build before, which had fewer rows
C24_IndexLeftBehind ==
    /\ pc = "failed"
    /\ error = Error("OSError", 0, <<"json">>)
    /\ csvFile = CsvContent(output_rows, opts)
    /\ before.index.exists
    /\ indexFile = before.index
    /\ indexFile # IndexContent(output_rows)

\* the write of the chained CSV has failed: neither the JSON export nor the
\* hash index was written
C24_SiblingsSkipped ==
    /\ pc = "failed"
    /\ error = Error("OSError", 0, <<"csv">>)
    /\ ~jsonFile.exists
    /\ ~indexFile.exists
    /\ Truthy(opts.json_path) /\ Truthy(opts.index_path)

\* values a caller may put into a hash cell: absent, blank, not a hash, digests
HashCellValues == {None, <<"z">>, Rep("0", 63) \o <<"3">>, Rep("A", 64)}

\* rows rs with the CurrentHash cell of every row set to c and the
\* PreviousHash cell of every row after the first set to p
WithHashCells(rs, p, c) ==
    [k \in 1..Len(rs) |->
        [rs[k] EXCEPT !.CurrentHash = c,
                      !.PreviousHash = IF k = 1 THEN rs[k].PreviousHash ELSE p]]

\* C25: the chain of a successful build is the chain of the same rows with
\* any other value in the CurrentHash cell of every row and in the
\* PreviousHash cell of every row after the first; what those cells hold is
\* neither validated nor used.
C25_HashCellsIgnored ==
    pc = "done" =>
        \A p, c \in HashCellValues :
            LET r == LinkAll(WithHashCells(rows, p, c), Len(rows))
            IN  /\ r.error = NoError
                /\ r.output_rows = [k \in 1..Len(output_rows) |-> ChainFields(output_rows[k])]

\* a build has succeeded on rows whose second row carries a PreviousHash and
\* a CurrentHash that are not hashes
C25_Witness ==
    /\ pc = "done"
    /\ Len(rows) >= 2
    /\ rows[2].PreviousHash = <<"z">>
    /\ rows[2].CurrentHash = Rep("A", 64)
    /\ output_rows[2]["PreviousHash"] = output_rows[1]["CurrentHash"]
    /\ csvFile.rows[2][5] = output_rows[1]["CurrentHash"]
    /\ csvFile.rows[2][6] = OwnHash(output_rows[2])

\* the hash inputs of the build so far: those of the records built and,
\* when the build has stopped at a row with a date that parses, that row's
HashInputs ==
    [k \in 1..(IF pc = "failed" /\ i < Len(rows) /\ Normalized(rows[i + 1])[4] # None
               THEN i + 1 ELSE Len(output_rows)) |->
        IF k <= Len(output_rows) THEN LinkerInput(k)
        ELSE Normalized(rows[k])[1] \o <<"|">> \o Normalized(rows[k])[2] \o <<"|">>
               \o Normalized(rows[k])[3] \o <<"|">> \o Normalized(rows[k])[4] \o <<"|">>
               \o output_rows[k - 1]["CurrentHash"]]

\* the assumption of C26 fails in the build so far: two different hash
\* inputs have the same hash, or a hash is the starting previous hash
HashCollides ==
    \/ \E j, k \in DOMAIN HashInputs :
          HashInputs[j] # HashInputs[k] /\ _sha256_hex(HashInputs[j]) = _sha256_hex(HashInputs[k])
    \/ \E j \in DOMAIN HashInputs : _sha256_hex(HashInputs[j]) = output_rows[1]["PreviousHash"]

SameFields(a, b) ==
    /\ a["CertID"] = b["CertID"]
    /\ a["RecipientName"] = b["RecipientName"]
    /\ a["CourseTitle"] = b["CourseTitle"]
    /\ a["DateIssued"] = b["DateIssued"]

\* C26: a build fails with DuplicateHash only if the hash has collided on
\* two different inputs of the build or has produced the starting previous
\* hash; short of that, rows with the same CertID, RecipientName,
\* CourseTitle and DateIssued at different positions get different
\* CurrentHash values, and the build goes on.
C26_NoDuplicateWithoutCollision ==
    /\ (pc = "failed" /\ error.kind = "DuplicateHash") => HashCollides
    /\ (Building /\ ~HashCollides) =>
          \A j, k \in 1..Len(output_rows) :
              (j # k /\ SameFields(output_rows[j], output_rows[k]))
                  => output_rows[j]["CurrentHash"] # output_rows[k]["CurrentHash"]

\* two adjacent rows with the same four fields have been built into a
\* chain of three records with three hashes, none of them the starting
\* previous hash
C26_Witness ==
    /\ pc = "done"
    /\ Len(output_rows) = 3
    /\ SameFields(output_rows[1], output_rows[2])
    /\ rows[1].CertID = rows[2].CertID
    /\ ~HashCollides
    /\ Cardinality({output_rows[k]["CurrentHash"] : k \in 1..3}) = 3

\* the hash of the first record is the starting previous hash, and the
\* second row, with the same fields, is refused
C26_StartingHashRepeated ==
    /\ pc = "failed"
    /\ error.kind = "DuplicateHash"
    /\ i = 1
    /\ output_rows[1]["CurrentHash"] = output_rows[1]["PreviousHash"]

\* the QR code image of record rec: what the service returns for the QR
\* URL of the record's own verification URL
OwnQrImage(rec) == _build_qr_url(rec["VerificationURL"], opts.qr_size)

\* C27: after a successful build with base_url and qr_dir, the QRCodePath
\* of every record that carries one is the path of an image file that
\* holds the QR code of that record's own VerificationURL.
C27_QrFileIsOwn ==
    (pc = "done" /\ DownloadsQr(opts)) =>
        \A k \in 1..Len(output_rows) :
            "QRCodePath" \in DOMAIN output_rows[k] =>
                /\ AbsPath(output_rows[k]["QRCodePath"]) \in DOMAIN qrFiles
                /\ qrFiles[AbsPath(output_rows[k]["QRCodePath"])] = OwnQrImage(output_rows[k])

\* two records of a finished build have the same CertID and the same
\* QRCodePath, and the file there holds the QR code of the second, which is
\* not that of the first
C27_ImageOverwritten ==
    /\ pc = "done"
    /\ DownloadsQr(opts)
    /\ Len(output_rows) >= 2
    /\ WithoutQrPath = {}
    /\ output_rows[1]["CertID"] = output_rows[2]["CertID"]
    /\ output_rows[1]["QRCodePath"] = output_rows[2]["QRCodePath"]
    /\ qrFiles[AbsPath(output_rows[1]["QRCodePath"])] = OwnQrImage(output_rows[Len(output_rows)])
    /\ OwnQrImage(output_rows[1]) # OwnQrImage(output_rows[Len(output_rows)])

\* some row of rs has a DateIssued that does not parse
HasBadDate(rs) == \E k \in 1..Len(rs) : _normalize_date(rs[k].DateIssued) = None

\* C28: every add_certificate request appends its row to the source CSV
\* whatever its date, and no step removes or changes a row of the source
\* CSV; from the step that leaves a row with an invalid date in the source
\* CSV on, no step writes the chained CSV, the JSON export or the hash
\* index, and no invocation gets past its loop: every call that returns
\* has failed.
C28_BadRowPersists ==
    [][/\ (opts' = OptApiAdd /\ runs' = runs + 1) =>
             /\ inputFile'.exists
             /\ Len(inputFile'.rows) = (IF inputFile.exists THEN Len(inputFile.rows) ELSE 0) + 1
       /\ inputFile.exists =>
             /\ inputFile'.exists
             /\ SubSeq(inputFile'.rows, 1, Len(inputFile.rows)) = inputFile.rows
       /\ (inputFile'.exists /\ HasBadDate(inputFile'.rows)) =>
             /\ UNCHANGED <<csvFile, jsonFile, indexFile>>
             /\ pc' \in {"idle", "loop", "in_download", "failed"}
             /\ runs' = runs + 1 => pc' \in {"loop", "failed"}]_vars

\* after a successful build, an add_certificate request with an invalid
\* date has failed: its row is the last of the source CSV and the three
\* artifacts are those of the build before, one row short of the source
C28_Witness ==
    /\ pc = "failed"
    /\ error.kind = "InvalidDate"
    /\ opts = OptApiAdd
    /\ Len(chains) = 1
    /\ Len(inputFile.rows) = 3
    /\ _normalize_date(inputFile.rows[3].DateIssued) = None
    /\ csvFile.exists /\ jsonFile.exists /\ indexFile.exists
    /\ csvFile = before.csv /\ jsonFile = before.json /\ indexFile = before.index
    /\ Len(csvFile.rows) = 2

\* a regenerate_data call after the failed request fails at the bad row too
C28_LaterCallFails ==
    /\ pc = "failed"
    /\ error.kind = "InvalidDate"
    /\ opts = OptApiRegen
    /\ runs = 2
    /\ chains = <<>>
    /\ i = Len(rows) - 1
    /\ i >= 1
    /\ ~csvFile.exists

\* C29: in every step of a session, the body of a view behind
\* login_required runs (a build is started by add_certificate or
\* regenerate_data, or another view answers from its body) only if
\* 'logged_in' is in the session; the key enters the session only by a
\* login POST with the correct credentials and is gone after a logout;
\* the value under the key is always True; and /api/status answers
\* 'authenticated' (200) exactly when login_required lets a request through.
C29_LoginGate ==
    [][/\ (runs' = runs + 1 \/ (reply' # reply /\ reply'.body)) => InSession(session, "logged_in")
       /\ (reply' # reply /\ reply'.view \notin {"login", "logout", "api_status"} /\ ~reply'.body)
             => (~InSession(session, "logged_in") /\ reply'.status \in {401, 302} /\ runs' = runs)
       /\ (InSession(session', "logged_in") /\ ~InSession(session, "logged_in"))
             => (reply'.view = "login" /\ reply'.form = <<"admin", "certAuth2025#">>)
       /\ (reply' # reply /\ reply'.form = <<"admin", "certAuth2025#">>)
             => InSession(session', "logged_in")
       /\ (reply' # reply /\ reply'.view = "logout") => ~InSession(session', "logged_in")
       /\ (InSession(session, "logged_in") /\ ~InSession(session', "logged_in"))
             => reply'.view = "logout"
       /\ InSession(session', "logged_in") => SessionGet(session', "logged_in") = TRUE
       /\ (reply' # reply /\ reply'.view = "api_status")
             => (reply'.status = 200 <=> InSession(session, "logged_in"))]_vars

\* after a login, a certificate added and a logout, a request to add
\* another certificate has been refused with 401
C29_Witness ==
    /\ reply = Reply("add_certificate", 401, FALSE, NoForm)
    /\ session = NoSession
    /\ runs = 1
    /\ pc = "done"
    /\ opts = OptApiAdd
    /\ Len(inputFile.rows) = 2

\* /api/status has answered 'authenticated' to the session that is logged in
C29_StatusAuthenticated ==
    /\ reply = Reply("api_status", 200, FALSE, NoForm)
    /\ session = LoggedIn

\* the chained CSV, the JSON export and the hash index hold the same chain
ArtifactsAgree ==
    /\ csvFile.exists /\ jsonFile.exists /\ indexFile.exists
    /\ Len(jsonFile.records) = Len(csvFile.rows)
    /\ \A k \in 1..Len(csvFile.rows) :
          /\ jsonFile.records[k]["CertID"] = csvFile.rows[k][1]
          /\ jsonFile.records[k]["CurrentHash"] = csvFile.rows[k][6]
    /\ IndexMatchesCsv

\* C30: when two add_certificate requests served at the same time have
\* both answered 200, the chained CSV, the JSON export and the hash index
\* hold the same chain, and it has a record for every row of the source CSV.
C30_ConcurrentAddsConsistent ==
    (pc = "done" /\ peer.pc = "done") =>
        /\ ArtifactsAgree
        /\ Len(csvFile.rows) = Len(inputFile.rows)
        /\ \A k \in 1..Len(inputFile.rows) : csvFile.rows[k][1] = Strip(inputFile.rows[k].CertID)

\* both requests have answered 200 and the three artifacts agree on a chain
\* that lacks the certificate of one of them
C30_CertificateLost ==
    /\ pc = "done" /\ peer.pc = "done"
    /\ ArtifactsAgree
    /\ Len(csvFile.rows) = Len(inputFile.rows) - 1

\* both requests have answered 200 and the chained CSV has a record that
\* the JSON export and the hash index have not
C30_ArtifactsDisagree ==
    /\ pc = "done" /\ peer.pc = "done"
    /\ Len(csvFile.rows) = Len(inputFile.rows)
    /\ Len(jsonFile.records) = Len(inputFile.rows) - 1
    /\ Cardinality(DOMAIN indexFile.map) = Len(inputFile.rows) - 1

====
